---- MODULE Spec2Model ----
(***************************************************************************)
(* sentinel: a productivity CLI that keeps sessions, tasks and reviews as  *)
(* JSON documents on disk.  The model covers the record documents, the     *)
(* store document, the two index documents and the commands that write     *)
(* them, one action per storage step of a command.                         *)
(*                                                                         *)
(* Conventions                                                             *)
(*   - a timestamp is a number of clock ticks; `now` is the latest reading  *)
(*     of the clock and Date.now() yields a time from it on (DateNow): the *)
(*     first or the last tick of a day, the instants day bucketing tells   *)
(*     apart;                                                              *)
(*   - toDateString() keeps the calendar day of a timestamp and drops the  *)
(*     time of day: it is modelled by the day number, DayLen ticks a day;  *)
(*   - v4.generate() yields an id never used before: the next number;      *)
(*   - an optional field that is unset holds Unset (names) or Null         *)
(*     (timestamps) or NoId (ids);                                         *)
(*   - a JS object used as a map is a function whose DOMAIN is its keys;   *)
(*   - fields that no command reads back (description, focus, workingDir,  *)
(*     github, onStart) are left out of the records.                       *)
(***************************************************************************)
EXTENDS Integers, Sequences, FiniteSets, TLC

\* ------------------------------------------------------------------ bounds
MaxTasks == 2
MaxSessions == 2
MaxTime == 2
DayLen == 2

\* ------------------------------------------------------------- vocabulary
Unset == "<undefined>"
Null == -1
NoId == 0

ProjectNames == {"alpha", "inbox"}
TaskIds == 1..MaxTasks
SessionIds == 1..MaxSessions

VARIABLES
    now,            \* the latest reading of the wall clock
    materialized,   \* which of store.json, tasks/index.json, sessions/index.json exist
    store,          \* store.json: [projects, ongoingSession]
    taskIndex,      \* tasks/index.json
    tasks,          \* tasks/<id>.json, a function id -> Task
    sessionIndex,   \* sessions/index.json
    sessions,       \* sessions/<id>.json, a function id -> Session
    pc,             \* where the running command stands ("idle": none runs)
    opts,           \* the running command's options
    cur,            \* the record the running command holds in memory
    queue,          \* toggleTasks: the tasks still to be rewritten
    toggled,        \* toggleTasks: the tasks rewritten so far
    mainStore,      \* setStore: the store document as loaded
    pending,        \* addProject calls started and not awaited
    console,        \* the last message the command layer printed
    trail           \* a function applied to any input: the input, then each result

vars == <<now, materialized, store, taskIndex, tasks, sessionIndex, sessions,
          pc, opts, cur, queue, toggled, mainStore, pending, console, trail>>

\* ---------------------------------------------------------------- helpers
\* An insert at the tail.
Snoc(x, s) == Append(s, x)

\* [x, ...s]
Cons(x, s) == <<x>> \o s

\* map[key] ?? []
GetOr(map, key) == IF key \in DOMAIN map THEN map[key] ELSE << >>

\* map[key] = value
Put(map, key, value) ==
    [k \in DOMAIN map \cup {key} |-> IF k = key THEN value ELSE map[k]]

Range(s) == {s[i] : i \in DOMAIN s}

Count(s, x) == Cardinality({i \in DOMAIN s : s[i] = x})

\* A day key that keeps the time of day, as toISOString() would.
toDateStringWithTime(t) == t

\* new Date(t).toDateString()
toDateString(t) == t \div DayLen

\* The calendar days the clock covers.
Days == 0..toDateString(MaxTime)

\* ------------------------------------------------------------- documents
INITIAL_STORE == [projects |-> {}, ongoingSession |-> NoId]

INITIAL_TASK_INDEX ==
    [all |-> << >>, inbox |-> << >>, incomplete |-> << >>,
     byProject |-> << >>, byCreationDate |-> << >>, byCompletionDate |-> << >>]

INITIAL_SESSION_INDEX ==
    [byProject |-> << >>, byDate |-> << >>, ordered |-> << >>]

NoRecord == [id |-> NoId]

NoOpts == [cmd |-> "none"]

\* loadWithDefault(path, default): an absent document is created holding the
\* default; the value read is the variable that models the document, which
\* holds the default while the document is absent.
loadWithDefault(doc) == materialized \cup {doc}

\* ------------------------------------------------------------ task index
\* A filter that drops the first occurrence of the item only.
withoutFirst(list, item) ==
    IF \E i \in DOMAIN list : list[i] = item
    THEN LET first == CHOOSE i \in DOMAIN list :
                          list[i] = item /\ \A j \in 1..(i - 1) : list[j] # item
         IN SubSeq(list, 1, first - 1) \o SubSeq(list, first + 1, Len(list))
    ELSE list

\* list.filter((candidate) => candidate != item)
without(list, item) == SelectSeq(list, LAMBDA candidate : candidate # item)

withoutAll(map, item) == [k \in DOMAIN map |-> without(map[k], item)]

\* A deindex that leaves the incomplete list alone.
deindexTaskKeepIncomplete(task, index) ==
    [all |-> without(index.all, task.id),
     inbox |-> without(index.inbox, task.id),
     incomplete |-> index.incomplete,
     byProject |-> withoutAll(index.byProject, task.id),
     byCreationDate |-> withoutAll(index.byCreationDate, task.id),
     byCompletionDate |-> withoutAll(index.byCompletionDate, task.id)]

\* A deindex that leaves the completion-day buckets alone.
deindexTaskKeepCompletion(task, index) ==
    [all |-> without(index.all, task.id),
     inbox |-> without(index.inbox, task.id),
     incomplete |-> without(index.incomplete, task.id),
     byProject |-> withoutAll(index.byProject, task.id),
     byCreationDate |-> withoutAll(index.byCreationDate, task.id),
     byCompletionDate |-> index.byCompletionDate]

\* A deindex that forgets the per-project lists.
deindexTaskSkipProjects(task, index) ==
    [all |-> without(index.all, task.id),
     inbox |-> without(index.inbox, task.id),
     incomplete |-> without(index.incomplete, task.id),
     byProject |-> index.byProject,
     byCreationDate |-> withoutAll(index.byCreationDate, task.id),
     byCompletionDate |-> withoutAll(index.byCompletionDate, task.id)]

deindexTask(task, index) ==
    [all |-> without(index.all, task.id),
     inbox |-> without(index.inbox, task.id),
     incomplete |-> without(index.incomplete, task.id),
     byProject |-> withoutAll(index.byProject, task.id),
     byCreationDate |-> withoutAll(index.byCreationDate, task.id),
     byCompletionDate |-> withoutAll(index.byCompletionDate, task.id)]

\* An insert that files every task under inbox, whatever its project.
indexTaskAlwaysInbox(task, index) ==
    [all |-> Cons(task.id, index.all),
     inbox |-> Cons(task.id, index.inbox),
     incomplete |-> IF ~task.isDone
                    THEN Cons(task.id, index.incomplete)
                    ELSE index.incomplete,
     byProject |-> IF task.projectName # Unset
                   THEN Put(index.byProject, task.projectName,
                            Cons(task.id, GetOr(index.byProject, task.projectName)))
                   ELSE index.byProject,
     byCreationDate |-> Put(index.byCreationDate, toDateString(task.created),
                            Cons(task.id, GetOr(index.byCreationDate,
                                                toDateString(task.created)))),
     byCompletionDate |-> IF task.completed # Null
                          THEN Put(index.byCompletionDate, toDateString(task.completed),
                                   Cons(task.id, GetOr(index.byCompletionDate,
                                                       toDateString(task.completed))))
                          ELSE index.byCompletionDate]

indexTask(task, index) ==
    [all |-> Cons(task.id, index.all),
     inbox |-> IF task.projectName # Unset
               THEN index.inbox
               ELSE Cons(task.id, index.inbox),
     incomplete |-> IF ~task.isDone
                    THEN Cons(task.id, index.incomplete)
                    ELSE index.incomplete,
     byProject |-> IF task.projectName # Unset
                   THEN Put(index.byProject, task.projectName,
                            Cons(task.id, GetOr(index.byProject, task.projectName)))
                   ELSE index.byProject,
     byCreationDate |-> Put(index.byCreationDate, toDateString(task.created),
                            Cons(task.id, GetOr(index.byCreationDate,
                                                toDateString(task.created)))),
     byCompletionDate |-> IF task.completed # Null
                          THEN Put(index.byCompletionDate, toDateString(task.completed),
                                   Cons(task.id, GetOr(index.byCompletionDate,
                                                       toDateString(task.completed))))
                          ELSE index.byCompletionDate]

\* A reindex that forgets to deindex first.
reindexTaskNoDeindex(task, index) == indexTask(task, index)

reindexTask(task, index) == indexTask(task, deindexTask(task, index))

\* A batch reindex that applies the first modifier only.
reindexAllFirstOnly(list, index) ==
    IF list = << >> THEN index ELSE reindexTask(Head(list), index)

\* toggledTasks.map(reindexTask).forEach((modifier) => modifier(index))
RECURSIVE reindexAll(_, _)
reindexAll(list, index) ==
    IF list = << >> THEN index
    ELSE reindexAll(Tail(list), reindexTask(Head(list), index))

\* --------------------------------------------------------------- listing
hydrateTasks(taskIds) == [i \in DOMAIN taskIds |-> tasks[taskIds[i]]]

CanHydrateTasks(taskIds) == \A i \in DOMAIN taskIds : taskIds[i] \in DOMAIN tasks

\* A key that keeps the tasks without project apart from every project.
groupKeyApart(task) == IF task.projectName # Unset THEN task.projectName ELSE Unset

groupKey(task) == IF task.projectName # Unset THEN task.projectName ELSE "inbox"

\* A TaskGroup is the sequence of its [key, tasks] entries in key order (the
\* order in which the keys were first written).
RECURSIVE groupInto(_, _)
groupInto(acc, list) ==
    IF list = << >> THEN acc
    ELSE LET task == Head(list)
             key == groupKey(task)
             at == {i \in DOMAIN acc : acc[i].key = key}
         IN  groupInto(
                 IF at = {}
                 THEN Append(acc, [key |-> key, tasks |-> <<task>>])
                 ELSE [i \in DOMAIN acc |->
                          IF i \in at
                          THEN [key |-> key, tasks |-> Append(acc[i].tasks, task)]
                          ELSE acc[i]],
                 Tail(list))

\* A grouping that keeps only the newest task of each project.
RECURSIVE groupTasksOverwriting(_)
groupTasksOverwriting(list) ==
    IF list = << >> THEN << >>
    ELSE LET rest == groupTasksOverwriting(SubSeq(list, 1, Len(list) - 1))
             task == list[Len(list)]
         IN  IF \E i \in DOMAIN rest : rest[i].key = groupKey(task)
             THEN [i \in DOMAIN rest |->
                      IF rest[i].key = groupKey(task)
                      THEN [key |-> groupKey(task), tasks |-> <<task>>]
                      ELSE rest[i]]
             ELSE Append(rest, [key |-> groupKey(task), tasks |-> <<task>>])

groupTasks(list) == groupInto(<< >>, list)

RECURSIVE flattenTasks(_)
flattenTasks(group) ==
    IF group = << >> THEN << >>
    ELSE Head(group).tasks \o flattenTasks(Tail(group))

inList(list, id) == \E i \in DOMAIN list : list[i] = id

\* The ids each listing reads from the index, before hydration.
getAllTaskIds(index, shouldIncludeDone) ==
    IF shouldIncludeDone THEN index.all ELSE index.incomplete

\* An inbox listing that never filters the done tasks out.
getInboxTaskIdsUnfiltered(index, shouldIncludeDone) == index.inbox

getInboxTaskIds(index, shouldIncludeDone) ==
    IF shouldIncludeDone THEN index.inbox
    ELSE SelectSeq(index.inbox, LAMBDA id : inList(index.incomplete, id))

getProjectTaskIds(index, projectName, shouldIncludeDone) ==
    IF shouldIncludeDone THEN GetOr(index.byProject, projectName)
    ELSE SelectSeq(GetOr(index.byProject, projectName),
                   LAMBDA id : inList(index.incomplete, id))

\* The ids the complete command presents, for its scope.
presentedIds(scope, shouldIncludeDone) ==
    IF scope = "all" THEN getAllTaskIds(taskIndex, shouldIncludeDone)
    ELSE IF scope = "inbox-list" THEN getInboxTaskIds(taskIndex, shouldIncludeDone)
    ELSE getProjectTaskIds(taskIndex, scope, shouldIncludeDone)

\* flattenTasks(tasks): getAllTasks hands over a TaskGroup, the others a list.
presentedTasks(scope, shouldIncludeDone) ==
    IF scope = "all"
    THEN flattenTasks(groupTasks(hydrateTasks(presentedIds(scope, shouldIncludeDone))))
    ELSE hydrateTasks(presentedIds(scope, shouldIncludeDone))

\* ----------------------------------------------------------------- state
Idle == pc = "idle" /\ pending = {}

Init ==
    /\ now = 0
    /\ materialized = {}
    /\ store = INITIAL_STORE
    /\ taskIndex = INITIAL_TASK_INDEX
    /\ tasks = << >>
    /\ sessionIndex = INITIAL_SESSION_INDEX
    /\ sessions = << >>
    /\ pc = "idle"
    /\ opts = NoOpts
    /\ cur = NoRecord
    /\ queue = << >>
    /\ toggled = << >>
    /\ mainStore = INITIAL_STORE
    /\ pending = {}
    /\ console = ""
    /\ trail = << >>

\* Date.now(): the clock never runs backwards.
DateNow == {t \in now..MaxTime : t % DayLen \in {0, DayLen - 1}}

\* ------------------------------------------------------------- projects
\* getOngoingSession(): the record the store's pointer names, or NoRecord.
getOngoingSession ==
    IF store.ongoingSession = NoId THEN NoRecord ELSE sessions[store.ongoingSession]

CanGetOngoingSession ==
    store.ongoingSession = NoId \/ store.ongoingSession \in DOMAIN sessions

\* getProject(projectName): the project's name and whether createProject ran.
\* With no name the user selects an existing project (choice) or creates one
\* under the name typed (choice); an unknown name is created.
getProject(projectName, createNew, choice) ==
    IF projectName = Unset
    THEN [name |-> choice, created |-> createNew]
    ELSE [name |-> projectName, created |-> projectName \notin store.projects]

CanGetProject(projectName, createNew, choice) ==
    projectName = Unset /\ ~createNew => choice \in store.projects

\* createProject: addProject(projectName, project) is called and not awaited.
spawnAddProject(project) ==
    IF project.created
    THEN pending \cup {[name |-> project.name, loaded |-> FALSE, store |-> INITIAL_STORE]}
    ELSE pending

\* addProject, first half: const store = await loadStore()
AddProjectLoad ==
    \E a \in pending :
        /\ ~a.loaded
        /\ pending' = (pending \ {a}) \cup {[a EXCEPT !.loaded = TRUE, !.store = store]}
        /\ materialized' = loadWithDefault("store")
        /\ UNCHANGED <<trail, now, store, taskIndex, tasks, sessionIndex, sessions,
                       pc, opts, cur, queue, toggled, mainStore, console>>

\* addProject, second half: store.projects[name] = project; writeJson(store)
AddProjectSave ==
    \E a \in pending :
        /\ a.loaded
        /\ store' = [a.store EXCEPT !.projects = @ \cup {a.name}]
        /\ pending' = pending \ {a}
        /\ UNCHANGED <<trail, now, materialized, taskIndex, tasks, sessionIndex, sessions,
                       pc, opts, cur, queue, toggled, mainStore, console>>

\* ------------------------------------------------------ task create command
\* taskCreate's action up to its first prompt: --current takes the project of
\* the ongoing session.
TaskCreateCmd ==
    \E shouldDump \in BOOLEAN, shouldShowCurrent \in BOOLEAN,
       projectName \in ProjectNames \cup {Unset} :
        /\ Idle
        /\ ~(shouldShowCurrent /\ projectName # Unset)    \* conflicts: ["project"]
        /\ shouldShowCurrent => CanGetOngoingSession
        /\ opts' = [cmd |-> "create",
                    dump |-> shouldDump,
                    projectName |->
                        IF shouldShowCurrent
                        THEN (IF getOngoingSession = NoRecord
                              THEN Unset ELSE getOngoingSession.projectName)
                        ELSE projectName]
        /\ materialized' = IF shouldShowCurrent THEN loadWithDefault("store")
                           ELSE materialized
        /\ pc' = "create_prompt"
        /\ UNCHANGED <<trail, now, store, taskIndex, tasks, sessionIndex, sessions,
                       cur, queue, toggled, mainStore, pending, console>>

\* One turn of the loop, for a non-empty description: getProject unless --dump,
\* then saveTask builds the task.
CreateNext ==
    \E createNew \in BOOLEAN, choice \in ProjectNames, time \in DateNow :
        LET project == getProject(opts.projectName, createNew, choice) IN
        /\ pc = "create_prompt"
        /\ now' = time
        /\ Cardinality(DOMAIN tasks) < MaxTasks
        /\ ~opts.dump => CanGetProject(opts.projectName, createNew, choice)
        /\ cur' = [id |-> Cardinality(DOMAIN tasks) + 1,
                   isDone |-> FALSE,
                   created |-> time,
                   projectName |-> IF opts.dump THEN Unset ELSE project.name,
                   completed |-> Null]
        /\ pending' = IF opts.dump THEN pending ELSE spawnAddProject(project)
        /\ materialized' = IF opts.dump THEN materialized ELSE loadWithDefault("store")
        /\ pc' = "create_index"
        /\ UNCHANGED <<trail, store, taskIndex, tasks, sessionIndex, sessions,
                       opts, queue, toggled, mainStore, console>>

\* saveTask: await modifyTaskIndex(indexTask(task))
CreateIndex ==
    /\ pc = "create_index"
    /\ taskIndex' = indexTask(cur, taskIndex)
    /\ materialized' = loadWithDefault("taskIndex")
    /\ pc' = "create_write"
    /\ UNCHANGED <<trail, now, store, tasks, sessionIndex, sessions,
                   opts, cur, queue, toggled, mainStore, pending, console>>

\* saveTask: await writeTask(task)
CreateWrite ==
    /\ pc = "create_write"
    /\ tasks' = Put(tasks, cur.id, cur)
    /\ cur' = NoRecord
    /\ pc' = "create_prompt"
    /\ UNCHANGED <<trail, now, materialized, store, taskIndex, sessionIndex, sessions,
                   opts, queue, toggled, mainStore, pending, console>>

\* The empty description ends the loop and the command.
CreateExit ==
    /\ pc = "create_prompt"
    /\ opts' = NoOpts
    /\ pc' = "idle"
    /\ UNCHANGED <<trail, now, materialized, store, taskIndex, tasks, sessionIndex, sessions,
                   cur, queue, toggled, mainStore, pending, console>>

\* ---------------------------------------------------- task complete command
\* The scope taskComplete's action settles on.
completeScope(shouldShowAll, shouldShowInbox, projectName) ==
    LET name == IF projectName = Unset /\ ~shouldShowInbox
                THEN (IF getOngoingSession = NoRecord
                      THEN Unset ELSE getOngoingSession.projectName)
                ELSE projectName
    IN  IF shouldShowAll THEN "all"
        ELSE IF shouldShowInbox \/ name = Unset THEN "inbox-list"
        ELSE name

\* A filter that takes every checked task, done already or not.
isToggledWhenChecked(task, checked) == task.id \in checked

\* checked.includes(task.id) !== task.isDone
isToggled(task, checked) == (task.id \in checked) # task.isDone

\* toggleTasks up to its loop: the listing is read (opts.presented, for the
\* scope and the --done flag of the command), the user checks boxes
\* (opts.checked), the tasks whose box differs from isDone are to be toggled.
TaskCompleteCmd ==
    \E shouldShowAll \in BOOLEAN, shouldShowInbox \in BOOLEAN,
       shouldShowDone \in BOOLEAN, projectName \in ProjectNames \cup {Unset} :
        LET scope == completeScope(shouldShowAll, shouldShowInbox, projectName)
            ids == presentedIds(scope, shouldShowDone)
        IN
        /\ Idle
        /\ ~(shouldShowAll /\ (shouldShowInbox \/ projectName # Unset))
        /\ ~(shouldShowInbox /\ projectName # Unset)        \* conflicts
        /\ CanGetOngoingSession
        /\ CanHydrateTasks(ids)
        /\ \E checked \in SUBSET Range(ids) :
              LET flatTasks == presentedTasks(scope, shouldShowDone) IN
              /\ queue' = SelectSeq(flatTasks, LAMBDA task : isToggled(task, checked))
              /\ opts' = [cmd |-> "complete", scope |-> scope, done |-> shouldShowDone,
                          presented |-> [i \in DOMAIN flatTasks |-> flatTasks[i].id],
                          checked |-> checked]
        /\ materialized' =
              (IF ~shouldShowAll /\ projectName = Unset /\ ~shouldShowInbox
               THEN loadWithDefault("store") ELSE materialized) \cup {"taskIndex"}
        /\ toggled' = << >>
        /\ pc' = IF queue' = << >> THEN "toggle_index" ELSE "toggle_write"
        /\ UNCHANGED <<trail, now, store, taskIndex, tasks, sessionIndex, sessions,
                       cur, mainStore, pending, console>>

\* A toggle that stamps completed on every flip, also back to not-done.
toggleTaskAlwaysStamp(task, time) ==
    [task EXCEPT !.isDone = ~task.isDone, !.completed = time]

\* task.isDone = !task.isDone; task.completed = task.isDone ? Date.now() : undefined
toggleTask(task, time) ==
    [task EXCEPT !.isDone = ~task.isDone,
                 !.completed = IF ~task.isDone THEN time ELSE Null]

\* One turn of the loop: the task is flipped and its record rewritten.
ToggleWrite ==
    /\ pc = "toggle_write"
    /\ \E time \in DateNow :
        LET task == toggleTask(Head(queue), time) IN
        /\ now' = time
        /\ tasks' = Put(tasks, task.id, task)
        /\ toggled' = Append(toggled, task)
    /\ queue' = Tail(queue)
    /\ pc' = IF Tail(queue) = << >> THEN "toggle_index" ELSE "toggle_write"
    /\ UNCHANGED <<trail, materialized, store, taskIndex, sessionIndex, sessions,
                   opts, cur, mainStore, pending, console>>

\* modifyTaskIndex, started by toggleTasks and not awaited: it runs after
\* toggleTasks has returned and ends the command.
ToggleIndex ==
    /\ pc = "toggle_index"
    /\ taskIndex' = reindexAll(toggled, taskIndex)
    /\ materialized' = loadWithDefault("taskIndex")
    /\ toggled' = << >>
    /\ opts' = NoOpts
    /\ pc' = "idle"
    /\ UNCHANGED <<trail, now, store, tasks, sessionIndex, sessions,
                   cur, queue, mainStore, pending, console>>

NextTasks ==
    \/ TaskCreateCmd
    \/ CreateNext
    \/ CreateIndex
    \/ CreateWrite
    \/ CreateExit
    \/ TaskCompleteCmd
    \/ ToggleWrite
    \/ ToggleIndex
    \/ AddProjectLoad
    \/ AddProjectSave

SpecTasks == Init /\ [][NextTasks]_vars

\* ----------------------------------------------------------- session index
\* An append that starts the day's list afresh.
addToIndexOverwriteDay(session, index) ==
    [byProject |-> Put(index.byProject, session.projectName,
                       Append(GetOr(index.byProject, session.projectName), session.id)),
     byDate |-> Put(index.byDate, toDateString(session.sessionStart), <<session.id>>),
     ordered |-> Append(index.ordered, session.id)]

\* An insert that puts the session at the head of each list, as the task
\* index does.
addToIndexPrepend(session, index) ==
    [byProject |-> Put(index.byProject, session.projectName,
                       Cons(session.id, GetOr(index.byProject, session.projectName))),
     byDate |-> Put(index.byDate, toDateString(session.sessionStart),
                    Cons(session.id, GetOr(index.byDate, toDateString(session.sessionStart)))),
     ordered |-> Cons(session.id, index.ordered)]

\* addToIndex(session), on the index document as loaded
addToIndex(session, index) ==
    [byProject |-> Put(index.byProject, session.projectName,
                       Append(GetOr(index.byProject, session.projectName), session.id)),
     byDate |-> Put(index.byDate, toDateString(session.sessionStart),
                    Append(GetOr(index.byDate, toDateString(session.sessionStart)),
                           session.id)),
     ordered |-> Append(index.ordered, session.id)]

\* ---------------------------------------------------- session start command
\* A guard that never sees an ongoing session.
hasOngoingSessionNever == FALSE

\* The guard of sessionStart and of sessionEnd / sessionRecap.
hasOngoingSession == getOngoingSession # NoRecord

\* sessionStart, rejected: a session is ongoing.
SessionStartRejected ==
    /\ Idle
    /\ CanGetOngoingSession
    /\ hasOngoingSession
    /\ materialized' = loadWithDefault("store")
    /\ console' = "There is an ongoing session. Did you forget to end it?"
    /\ UNCHANGED <<trail, now, store, taskIndex, tasks, sessionIndex, sessions,
                   pc, opts, cur, queue, toggled, mainStore, pending>>

\* sessionStart, accepted, up to saveSession: createSession gets the project
\* (getProject), lists its open tasks for the focus prompt (getProjectTasks)
\* and builds the session.
SessionStartCmd ==
    \E projectName \in ProjectNames \cup {Unset}, createNew \in BOOLEAN,
       choice \in ProjectNames, time \in DateNow :
        LET project == getProject(projectName, createNew, choice) IN
        /\ Idle
        /\ CanGetOngoingSession
        /\ ~hasOngoingSession
        /\ Cardinality(DOMAIN sessions) < MaxSessions
        /\ CanGetProject(projectName, createNew, choice)
        /\ CanHydrateTasks(getProjectTaskIds(taskIndex, project.name, FALSE))
        /\ pending' = spawnAddProject(project)
        /\ materialized' = materialized \cup {"store", "taskIndex"}
        /\ now' = time
        /\ cur' = [id |-> Cardinality(DOMAIN sessions) + 1,
                   projectName |-> project.name,
                   sessionStart |-> time,
                   sessionEnd |-> Null]
        /\ opts' = [cmd |-> "start"]
        /\ pc' = "start_index"
        /\ UNCHANGED <<trail, store, taskIndex, tasks, sessionIndex, sessions,
                       queue, toggled, mainStore, console>>

\* saveSession: await addToIndex(session)
StartAddToIndex ==
    /\ pc = "start_index"
    /\ sessionIndex' = addToIndex(cur, sessionIndex)
    /\ materialized' = loadWithDefault("sessionIndex")
    /\ pc' = "start_record"
    /\ UNCHANGED <<trail, now, store, taskIndex, tasks, sessions,
                   opts, cur, queue, toggled, mainStore, pending, console>>

\* A saveSession that goes on to setOngoingSession with no record written.
StartWriteRecordSkipped ==
    /\ pc = "start_record"
    /\ pc' = "start_setstore"
    /\ UNCHANGED <<trail, now, materialized, store, taskIndex, tasks, sessionIndex,
                   sessions, opts, cur, queue, toggled, mainStore, pending, console>>

\* saveSession: ensureFile(sessionPath); writeJson(sessionPath, session)
StartWriteRecord ==
    /\ pc = "start_record"
    /\ sessions' = Put(sessions, cur.id, cur)
    /\ pc' = "start_setstore"
    /\ UNCHANGED <<trail, now, materialized, store, taskIndex, tasks, sessionIndex,
                   opts, cur, queue, toggled, mainStore, pending, console>>

\* ------------------------------------------------------ session end command
\* sessionEnd, rejected: no session is ongoing.
SessionEndRejected ==
    /\ Idle
    /\ CanGetOngoingSession
    /\ ~hasOngoingSession
    /\ materialized' = loadWithDefault("store")
    /\ console' = "There is no ongoing session. Did you forget to start it?"
    /\ UNCHANGED <<trail, now, store, taskIndex, tasks, sessionIndex, sessions,
                   pc, opts, cur, queue, toggled, mainStore, pending>>

\* session.sessionEnd = Date.now()
endedSession(session, time) == [session EXCEPT !.sessionEnd = time]

\* A session-end that refiles the session under the day it ended on.
SessionEndCmdRefiling ==
    \E time \in DateNow :
        /\ Idle
        /\ CanGetOngoingSession
        /\ hasOngoingSession
        /\ now' = time
        /\ cur' = endedSession(getOngoingSession, time)
        /\ sessions' = Put(sessions, cur'.id, cur')
        /\ sessionIndex' =
              [sessionIndex EXCEPT !.byDate =
                  Put(withoutAll(sessionIndex.byDate, cur'.id), toDateString(time),
                      Append(without(GetOr(sessionIndex.byDate, toDateString(time)),
                                     cur'.id),
                             cur'.id))]
        /\ materialized' = loadWithDefault("store")
        /\ opts' = [cmd |-> "end"]
        /\ pc' = "end_setstore"
        /\ UNCHANGED <<trail, store, taskIndex, tasks,
                       queue, toggled, mainStore, pending, console>>

\* sessionEnd, accepted, up to clearOngoingSession: endSession stamps the
\* session the guard read and rewrites its record.
SessionEndCmd ==
    \E time \in DateNow :
        /\ Idle
        /\ CanGetOngoingSession
        /\ hasOngoingSession
        /\ now' = time
        /\ cur' = endedSession(getOngoingSession, time)
        /\ sessions' = Put(sessions, cur'.id, cur')
        /\ materialized' = loadWithDefault("store")
        /\ opts' = [cmd |-> "end"]
        /\ pc' = "end_setstore"
        /\ UNCHANGED <<trail, store, taskIndex, tasks, sessionIndex,
                       queue, toggled, mainStore, pending, console>>

\* ---------------------------------------------------------------- setStore
\* A modification that names the command's session even when clearing.
storeModificationKeep == cur.id

\* The modification setOngoingSession / clearOngoingSession hands to setStore.
storeModification == IF pc = "start_setstore_save" THEN cur.id ELSE NoId

\* Object.assign(store, modification)
assignStore(loaded, ongoingSession) == [loaded EXCEPT !.ongoingSession = ongoingSession]

\* setStore, first half: const store = await loadStore()
SetStoreLoad ==
    /\ pc \in {"start_setstore", "end_setstore"}
    /\ mainStore' = store
    /\ materialized' = loadWithDefault("store")
    /\ pc' = IF pc = "start_setstore" THEN "start_setstore_save" ELSE "end_setstore_save"
    /\ UNCHANGED <<trail, now, store, taskIndex, tasks, sessionIndex, sessions,
                   opts, cur, queue, toggled, pending, console>>

\* setStore, second half: Object.assign(store, modification); saveStore(store).
\* The command then prints its last message and returns.
SetStoreSave ==
    /\ pc \in {"start_setstore_save", "end_setstore_save"}
    /\ store' = assignStore(mainStore, storeModification)
    /\ console' = IF pc = "start_setstore_save"
                  THEN "Session Started! Get to work!"
                  ELSE "Good job! Your session has been logged."
    /\ mainStore' = INITIAL_STORE
    /\ opts' = NoOpts
    /\ pc' = "idle"
    /\ UNCHANGED <<trail, now, materialized, taskIndex, tasks, sessionIndex, sessions,
                   cur, queue, toggled, pending>>

\* ---------------------------------------------------- session recap command
SessionRecapCmd ==
    /\ Idle
    /\ CanGetOngoingSession
    /\ materialized' = loadWithDefault("store")
    /\ console' = IF hasOngoingSession
                  THEN "Current Session"
                  ELSE "There is no ongoing session. Did you forget to start it?"
    /\ UNCHANGED <<trail, now, store, taskIndex, tasks, sessionIndex, sessions,
                   pc, opts, cur, queue, toggled, mainStore, pending>>

NextSessions ==
    \/ SessionStartRejected
    \/ SessionStartCmd
    \/ StartAddToIndex
    \/ StartWriteRecord
    \/ SessionEndRejected
    \/ SessionEndCmd
    \/ SetStoreLoad
    \/ SetStoreSave
    \/ SessionRecapCmd
    \/ AddProjectLoad
    \/ AddProjectSave

SpecSessions == Init /\ [][NextSessions]_vars

\* ------------------------------------------ a session-end that is stopped
\* The process of a session-end stops (a crash, a rejected storage call)
\* after endSession has written the record and before clearOngoingSession
\* has saved the store: what the command held in memory is gone.
SessionEndStopped ==
    /\ pc \in {"end_setstore", "end_setstore_save"}
    /\ pc' = "idle"
    /\ opts' = NoOpts
    /\ mainStore' = INITIAL_STORE
    /\ console' = "error: Uncaught"
    /\ UNCHANGED <<trail, now, materialized, store, taskIndex, tasks, sessionIndex,
                   sessions, cur, queue, toggled, pending>>

NextStopped ==
    \/ NextSessions
    \/ SessionEndStopped

SpecStopped == Init /\ [][NextStopped]_vars

\* ------------------------------------------- sentinel.ts, the one-file tool
\* index.byProject[formattedStartDate] ?? []: the list of the project that is
\* named like the day; no project of ProjectNames is.
byProjectOfDay(index, day) == << >>

\* addToIndex(session) of sentinel.ts: the day's list is rebuilt from
\* index.byProject[formattedStartDate], not from index.byDate[formattedStartDate].
addToIndexSentinel(session, index) ==
    [byProject |-> Put(index.byProject, session.projectName,
                       Append(GetOr(index.byProject, session.projectName), session.id)),
     byDate |-> Put(index.byDate, toDateString(session.sessionStart),
                    Append(byProjectOfDay(index, toDateString(session.sessionStart)),
                           session.id)),
     ordered |-> Append(index.ordered, session.id)]

\* sessionStart of sentinel.ts, accepted, up to saveSession: createSession gets
\* the project and builds the session; it lists no tasks.
SentinelStartCmd ==
    \E projectName \in ProjectNames \cup {Unset}, createNew \in BOOLEAN,
       choice \in ProjectNames, time \in DateNow :
        LET project == getProject(projectName, createNew, choice) IN
        /\ Idle
        /\ CanGetOngoingSession
        /\ ~hasOngoingSession
        /\ Cardinality(DOMAIN sessions) < MaxSessions
        /\ CanGetProject(projectName, createNew, choice)
        /\ pending' = spawnAddProject(project)
        /\ materialized' = loadWithDefault("store")
        /\ now' = time
        /\ cur' = [id |-> Cardinality(DOMAIN sessions) + 1,
                   projectName |-> project.name,
                   sessionStart |-> time,
                   sessionEnd |-> Null]
        /\ opts' = [cmd |-> "start"]
        /\ pc' = "start_index"
        /\ UNCHANGED <<trail, store, taskIndex, tasks, sessionIndex, sessions,
                       queue, toggled, mainStore, console>>

\* saveSession of sentinel.ts: await addToIndex(session)
SentinelAddToIndex ==
    /\ pc = "start_index"
    /\ sessionIndex' = addToIndexSentinel(cur, sessionIndex)
    /\ materialized' = loadWithDefault("sessionIndex")
    /\ pc' = "start_record"
    /\ UNCHANGED <<trail, now, store, taskIndex, tasks, sessions,
                   opts, cur, queue, toggled, mainStore, pending, console>>

\* The rest of sentinel.ts reads as the session commands above do.
NextSentinel ==
    \/ SessionStartRejected
    \/ SentinelStartCmd
    \/ SentinelAddToIndex
    \/ StartWriteRecord
    \/ SessionEndRejected
    \/ SessionEndCmd
    \/ SetStoreLoad
    \/ SetStoreSave
    \/ SessionRecapCmd
    \/ AddProjectLoad
    \/ AddProjectSave

SpecSentinel == Init /\ [][NextSentinel]_vars

\* ------------------------------------------- reindexTask on any task index
\* Id lists of an index document: without task 1, with it between two other
\* ids, with it twice.
IdLists == {<< >>, <<3, 1, 2>>, <<2, 1, 1>>}

\* byProject maps: no key, a key holding the task, keys left empty or stale.
ProjectMaps ==
    {<< >>,
     "alpha" :> <<3, 1, 2>>,
     ("alpha" :> <<2>>) @@ ("inbox" :> <<1, 1>>),
     "inbox" :> << >>}

\* byCreationDate / byCompletionDate maps, keyed by day.
DayMaps ==
    {<< >>,
     0 :> <<3, 1, 2>>,
     (0 :> <<2>>) @@ (toDateString(MaxTime) :> <<1, 1>>),
     toDateString(MaxTime) :> << >>}

\* Any task index document, consistent with the records or not.
AnyTaskIndex ==
    [all : IdLists, inbox : IdLists, incomplete : IdLists,
     byProject : ProjectMaps, byCreationDate : DayMaps, byCompletionDate : DayMaps]

\* Any field values of task 1.
AnyTask ==
    [id : {1},
     isDone : BOOLEAN,
     created : {0, MaxTime},
     projectName : ProjectNames \cup {Unset},
     completed : {Null, 0, MaxTime}]

InitReindex ==
    /\ now = 0
    /\ materialized = {"taskIndex"}
    /\ store = INITIAL_STORE
    /\ taskIndex \in AnyTaskIndex
    /\ tasks = << >>
    /\ sessionIndex = INITIAL_SESSION_INDEX
    /\ sessions = << >>
    /\ pc = "reindex"
    /\ opts = NoOpts
    /\ cur \in AnyTask
    /\ queue = << >>
    /\ toggled = << >>
    /\ mainStore = INITIAL_STORE
    /\ pending = {}
    /\ console = ""
    /\ trail = <<taskIndex>>

\* modifyTaskIndex(reindexTask(task)), with the same task, up to twice
ApplyReindexTask ==
    /\ pc = "reindex"
    /\ Len(trail) < 3
    /\ taskIndex' = reindexTask(cur, taskIndex)
    /\ trail' = Append(trail, taskIndex')
    /\ UNCHANGED <<now, materialized, store, tasks, sessionIndex, sessions,
                   pc, opts, cur, queue, toggled, mainStore, pending, console>>

SpecReindex == InitReindex /\ [][ApplyReindexTask]_vars

\* ------------------------------ deindexTask and indexTask on any task index
\* Any index document and any of the candidate tasks, before the function at
\* `position` runs.
InitIndexFunction(position, candidates) ==
    /\ now = 0
    /\ materialized = {"taskIndex"}
    /\ store = INITIAL_STORE
    /\ taskIndex \in AnyTaskIndex
    /\ tasks = << >>
    /\ sessionIndex = INITIAL_SESSION_INDEX
    /\ sessions = << >>
    /\ pc = position
    /\ opts = NoOpts
    /\ cur \in candidates
    /\ queue = << >>
    /\ toggled = << >>
    /\ mainStore = INITIAL_STORE
    /\ pending = {}
    /\ console = ""
    /\ trail = <<taskIndex>>

InitDeindex == InitIndexFunction("deindex", AnyTask)

\* modifyTaskIndex(deindexTask(task))
ApplyDeindexTask ==
    /\ pc = "deindex"
    /\ Len(trail) < 2
    /\ taskIndex' = deindexTask(cur, taskIndex)
    /\ trail' = Append(trail, taskIndex')
    /\ UNCHANGED <<now, materialized, store, tasks, sessionIndex, sessions,
                   pc, opts, cur, queue, toggled, mainStore, pending, console>>

SpecDeindex == InitDeindex /\ [][ApplyDeindexTask]_vars

\* Any field values of a task no index document of AnyTaskIndex lists.
AnyNewTask ==
    [id : {4},
     isDone : BOOLEAN,
     created : {0, MaxTime},
     projectName : ProjectNames \cup {Unset},
     completed : {Null, 0, MaxTime}]

InitIndexNew == InitIndexFunction("index", AnyNewTask)

\* modifyTaskIndex(indexTask(task))
ApplyIndexTask ==
    /\ pc = "index"
    /\ Len(trail) < 2
    /\ taskIndex' = indexTask(cur, taskIndex)
    /\ trail' = Append(trail, taskIndex')
    /\ UNCHANGED <<now, materialized, store, tasks, sessionIndex, sessions,
                   pc, opts, cur, queue, toggled, mainStore, pending, console>>

SpecIndexNew == InitIndexNew /\ [][ApplyIndexTask]_vars

\* ------------------------------------------------------- formatDuration
MaxHours == 25

SECOND_MULTIPLIER == 1000
MINUTE_MULTIPLIER == 60 * SECOND_MULTIPLIER
HOUR_MULTIPLIER == 60 * MINUTE_MULTIPLIER

\* A format that prints the whole duration in minutes after the hours.
formatDurationTotalMinutes(duration) ==
    ToString(duration \div HOUR_MULTIPLIER) \o "h "
        \o ToString(duration \div MINUTE_MULTIPLIER) \o "m "
        \o ToString((duration % MINUTE_MULTIPLIER) \div SECOND_MULTIPLIER) \o "s"

\* `${Math.floor(duration / HOUR_MULTIPLIER)}h ${...}m ${...}s`, for a
\* duration that is not negative
formatDuration(duration) ==
    ToString(duration \div HOUR_MULTIPLIER) \o "h "
        \o ToString((duration % HOUR_MULTIPLIER) \div MINUTE_MULTIPLIER) \o "m "
        \o ToString((duration % MINUTE_MULTIPLIER) \div SECOND_MULTIPLIER) \o "s"

\* Durations in milliseconds: whole hours up to MaxHours, plus minutes,
\* seconds and milliseconds at and next to the places where a unit rolls over.
Durations ==
    {h * HOUR_MULTIPLIER + m * MINUTE_MULTIPLIER + sec * SECOND_MULTIPLIER + ms :
        h \in 0..MaxHours, m \in {0, 1, 30, 59}, sec \in {0, 25, 59}, ms \in {0, 1, 999}}

InitFormat ==
    /\ now = 0
    /\ materialized = {}
    /\ store = INITIAL_STORE
    /\ taskIndex = INITIAL_TASK_INDEX
    /\ tasks = << >>
    /\ sessionIndex = INITIAL_SESSION_INDEX
    /\ sessions = << >>
    /\ pc = "format"
    /\ opts = NoOpts
    /\ cur = NoRecord
    /\ queue = << >>
    /\ toggled = << >>
    /\ mainStore = INITIAL_STORE
    /\ pending = {}
    /\ console = ""
    /\ \E duration \in Durations : trail = <<duration>>

\* console.log(formatDuration(duration))
ApplyFormatDuration ==
    /\ pc = "format"
    /\ Len(trail) = 1
    /\ trail' = Append(trail, formatDuration(trail[1]))
    /\ console' = trail'[2]
    /\ UNCHANGED <<now, materialized, store, taskIndex, tasks, sessionIndex, sessions,
                   pc, opts, cur, queue, toggled, mainStore, pending>>

SpecFormat == InitFormat /\ [][ApplyFormatDuration]_vars

\* ------------------------------------- two invocations on one ~/.sentinel
\* Two invocations of the tool run against the same storage directory, in
\* which an earlier `tasks create --dump` has left one task. Each invocation
\* is a record of `pending`: the process, the command, the task it holds, how
\* far it has come and the index document it loaded.
Procs == {1, 2}

FirstTask ==
    [id |-> 1, isDone |-> FALSE, created |-> 0, projectName |-> Unset, completed |-> Null]

InitWriters ==
    /\ now = 0
    /\ materialized = {"taskIndex"}
    /\ store = INITIAL_STORE
    /\ taskIndex = indexTask(FirstTask, INITIAL_TASK_INDEX)
    /\ tasks = (1 :> FirstTask)
    /\ sessionIndex = INITIAL_SESSION_INDEX
    /\ sessions = << >>
    /\ pc = "idle"
    /\ opts = NoOpts
    /\ cur = NoRecord
    /\ queue = << >>
    /\ toggled = << >>
    /\ mainStore = INITIAL_STORE
    /\ pending = {}
    /\ console = ""
    /\ trail = << >>

HasCall(calls, p) == \E c \in calls : c.proc = p

CallOf(calls, p) == CHOOSE c \in calls : c.proc = p

FreeProc(p) == ~HasCall(pending, p)

StartCall(call) == {c \in pending : c.proc # call.proc} \cup {call}

\* The modifier the invocation hands to modifyTaskIndex: indexTask(task) from
\* saveTask, reindexTask of the toggled task from toggleTasks.
modifier(call, index) ==
    IF call.kind = "create"
    THEN indexTask(call.task, index)
    ELSE reindexTask(call.task, index)

\* A save that applies the modifier to the document as it is on disk now.
savedIndexReloaded(call) == modifier(call, taskIndex)

\* modifyTaskIndex: modifier(index); writeJson(TASKS_INDEX_PATH, index), on
\* the index the invocation loaded.
savedIndex(call) == modifier(call, call.index)

\* tasks create --dump, one description typed: saveTask builds the task.
WriterCreate ==
    \E p \in Procs, time \in DateNow :
        LET used == DOMAIN tasks \cup {c.task.id : c \in pending} IN
        /\ pc = "idle"
        /\ FreeProc(p)
        /\ Cardinality(used) < MaxTasks
        /\ now' = time
        /\ pending' = StartCall([proc |-> p,
                                 kind |-> "create",
                                 task |-> [id |-> Cardinality(used) + 1,
                                           isDone |-> FALSE,
                                           created |-> time,
                                           projectName |-> Unset,
                                           completed |-> Null],
                                 phase |-> "load",
                                 index |-> INITIAL_TASK_INDEX,
                                 saved |-> FALSE])
        /\ UNCHANGED <<trail, materialized, store, taskIndex, tasks, sessionIndex,
                       sessions, pc, opts, cur, queue, toggled, mainStore, console>>

\* tasks complete --all --done, one box changed: getAllTasks lists and
\* hydrates the index, toggleTasks flips the task it was handed.
WriterToggle ==
    \E p \in Procs, id \in Range(taskIndex.all), time \in DateNow :
        /\ pc = "idle"
        /\ FreeProc(p)
        /\ CanHydrateTasks(taskIndex.all)
        /\ now' = time
        /\ pending' = StartCall([proc |-> p,
                                 kind |-> "toggle",
                                 task |-> toggleTask(tasks[id], time),
                                 phase |-> "write",
                                 index |-> INITIAL_TASK_INDEX,
                                 saved |-> FALSE])
        /\ materialized' = loadWithDefault("taskIndex")
        /\ UNCHANGED <<trail, store, taskIndex, tasks, sessionIndex,
                       sessions, pc, opts, cur, queue, toggled, mainStore, console>>

\* toggleTasks: await writeTask(task)
WriterToggleWrite ==
    \E c \in pending :
        /\ c.phase = "write"
        /\ tasks' = Put(tasks, c.task.id, c.task)
        /\ pending' = StartCall([c EXCEPT !.phase = "load"])
        /\ UNCHANGED <<trail, now, materialized, store, taskIndex, sessionIndex,
                       sessions, pc, opts, cur, queue, toggled, mainStore, console>>

\* modifyTaskIndex: const index = await loadTaskIndex()
WriterLoad ==
    \E c \in pending :
        /\ c.phase = "load"
        /\ pending' = StartCall([c EXCEPT !.phase = "save", !.index = taskIndex])
        /\ materialized' = loadWithDefault("taskIndex")
        /\ UNCHANGED <<trail, now, store, taskIndex, tasks, sessionIndex,
                       sessions, pc, opts, cur, queue, toggled, mainStore, console>>

\* modifyTaskIndex: modifier(index); await writeJson(TASKS_INDEX_PATH, index)
WriterSave ==
    \E c \in pending :
        /\ c.phase = "save"
        /\ taskIndex' = savedIndex(c)
        /\ pending' = StartCall([c EXCEPT !.saved = TRUE,
                                          !.phase = IF c.kind = "create"
                                                    THEN "record" ELSE "done"])
        /\ UNCHANGED <<trail, now, materialized, store, tasks, sessionIndex,
                       sessions, pc, opts, cur, queue, toggled, mainStore, console>>

\* saveTask: await writeTask(task)
WriterCreateWrite ==
    \E c \in pending :
        /\ c.phase = "record"
        /\ tasks' = Put(tasks, c.task.id, c.task)
        /\ pending' = StartCall([c EXCEPT !.phase = "done"])
        /\ UNCHANGED <<trail, now, materialized, store, taskIndex, sessionIndex,
                       sessions, pc, opts, cur, queue, toggled, mainStore, console>>

NextWriters ==
    \/ WriterCreate
    \/ WriterToggle
    \/ WriterToggleWrite
    \/ WriterLoad
    \/ WriterSave
    \/ WriterCreateWrite

SpecWriters == InitWriters /\ [][NextWriters]_vars

\* ------------------------------------------- loadWithDefault on any file
\* What a path holds is [kind, value]: no file ("absent"), a file of no bytes
\* ("empty"), the JSON text of value ("valid"), a non-empty proper prefix of
\* that text ("truncated"), or text that is not JSON at its first character
\* ("garbled").
Paths == {"store", "taskIndex", "sessionIndex"}

DefaultOf(path) ==
    CASE path = "store" -> INITIAL_STORE
      [] path = "taskIndex" -> INITIAL_TASK_INDEX
      [] path = "sessionIndex" -> INITIAL_SESSION_INDEX

ValuesOf(path) ==
    CASE path = "store" ->
             [projects : SUBSET ProjectNames, ongoingSession : {NoId} \cup SessionIds]
      [] path = "taskIndex" ->
             {INITIAL_TASK_INDEX, indexTask(FirstTask, INITIAL_TASK_INDEX)}
      [] path = "sessionIndex" ->
             {INITIAL_SESSION_INDEX,
              addToIndex([id |-> 1, projectName |-> "alpha",
                          sessionStart |-> 0, sessionEnd |-> Null],
                         INITIAL_SESSION_INDEX)}

NoValue == "<none>"

FileContents(path) ==
    [kind : {"absent", "empty", "garbled"}, value : {NoValue}]
        \cup [kind : {"valid", "truncated"}, value : ValuesOf(path)]

\* ensureFile(path): a missing file is created with no bytes.
ensureFile(file) ==
    IF file.kind = "absent" THEN [kind |-> "empty", value |-> NoValue] ELSE file

\* JSON.parse(content): the value, or the message of the SyntaxError. The
\* parser reports the end of the text wherever it runs out of input, in an
\* empty text and in a cut-off one alike.
JSONParse(file) ==
    CASE file.kind = "valid" -> [ok |-> TRUE, value |-> file.value, message |-> << >>]
      [] file.kind \in {"empty", "truncated"} ->
             [ok |-> FALSE, value |-> NoValue,
              message |-> <<"Unexpected end of JSON input">>]
      [] file.kind = "garbled" ->
             [ok |-> FALSE, value |-> NoValue,
              message |-> <<"Unexpected token in JSON at position 0">>]

\* readJson(path): err.message = `${filePath}: ${err.message}`
readJson(path, file) ==
    LET parsed == JSONParse(file) IN
    IF parsed.ok THEN parsed
    ELSE [parsed EXCEPT !.message = <<path, ": ">> \o parsed.message]

\* message.endsWith(suffix), message being the parts of the text in order
endsWith(message, suffix) == message # << >> /\ message[Len(message)] = suffix

\* loadWithDefault(path, defaultValue), on the file as it is: what the path
\* holds afterwards, the value returned and the message of the error thrown.
loadFile(path, file) ==
    LET ensured == ensureFile(file)
        read == readJson(path, ensured)
    IN  IF read.ok
        THEN [path |-> path, file |-> ensured, returned |-> read.value, thrown |-> << >>]
        ELSE IF endsWith(read.message, "Unexpected end of JSON input")
        THEN [path |-> path,
              file |-> [kind |-> "valid", value |-> DefaultOf(path)],
              returned |-> DefaultOf(path), thrown |-> << >>]
        ELSE [path |-> path, file |-> ensured, returned |-> NoValue,
              thrown |-> read.message]

InitLoad ==
    /\ now = 0
    /\ materialized = {}
    /\ store = INITIAL_STORE
    /\ taskIndex = INITIAL_TASK_INDEX
    /\ tasks = << >>
    /\ sessionIndex = INITIAL_SESSION_INDEX
    /\ sessions = << >>
    /\ pc = "load"
    /\ opts = NoOpts
    /\ cur = NoRecord
    /\ queue = << >>
    /\ toggled = << >>
    /\ mainStore = INITIAL_STORE
    /\ pending = {}
    /\ console = ""
    /\ \E path \in Paths : \E file \in FileContents(path) :
          trail = <<[path |-> path, file |-> file, returned |-> NoValue, thrown |-> << >>]>>

\* await loadWithDefault(path, defaultValue), by one command and by the next
ApplyLoadWithDefault ==
    /\ pc = "load"
    /\ Len(trail) < 3
    /\ trail' = Append(trail, loadFile(trail[Len(trail)].path, trail[Len(trail)].file))
    /\ UNCHANGED <<now, materialized, store, taskIndex, tasks, sessionIndex, sessions,
                   pc, opts, cur, queue, toggled, mainStore, pending, console>>

SpecLoad == InitLoad /\ [][ApplyLoadWithDefault]_vars

\* ------------------------------------------------------------------ review
\* A SessionGroup, like a TaskGroup, is the sequence of its [key, sessions]
\* entries in key order.
RECURSIVE groupSessionsInto(_, _)
groupSessionsInto(acc, list) ==
    IF list = << >> THEN acc
    ELSE LET session == Head(list)
             key == session.projectName
             at == {i \in DOMAIN acc : acc[i].key = key}
         IN  groupSessionsInto(
                 IF at = {}
                 THEN Append(acc, [key |-> key, sessions |-> <<session>>])
                 ELSE [i \in DOMAIN acc |->
                          IF i \in at
                          THEN [key |-> key, sessions |-> Append(acc[i].sessions, session)]
                          ELSE acc[i]],
                 Tail(list))

groupSessions(list) == groupSessionsInto(<< >>, list)

RECURSIVE flattenSessions(_)
flattenSessions(group) ==
    IF group = << >> THEN << >>
    ELSE Head(group).sessions \o flattenSessions(Tail(group))

\* A sum that counts ended sessions only.
RECURSIVE sumDurationEndedOnly(_, _)
sumDurationEndedOnly(list, time) ==
    IF list = << >> THEN 0
    ELSE (IF Head(list).sessionEnd # Null
          THEN Head(list).sessionEnd - Head(list).sessionStart ELSE 0)
         + sumDurationEndedOnly(Tail(list), time)

\* sessions.reduce((acc, s) => acc + (s.sessionEnd ?? Date.now()) - s.sessionStart, 0),
\* Date.now() reading `time`
RECURSIVE sumDuration(_, _)
sumDuration(list, time) ==
    IF list = << >> THEN 0
    ELSE ((IF Head(list).sessionEnd # Null THEN Head(list).sessionEnd ELSE time)
              - Head(list).sessionStart)
         + sumDuration(Tail(list), time)

\* An enumeration that stops short of the interval's last day.
dayKeysForIntervalOpen(start, end) == [i \in 1..(end - start) |-> start + i - 1]

\* eachDayOfInterval(interval).map((date) => date.toDateString())
dayKeysForInterval(start, end) == [i \in 1..(end - start + 1) |-> start + i - 1]

\* days.flatMap((day) => map[day] ?? [])
RECURSIVE flatMapDays(_, _)
flatMapDays(days, map) ==
    IF days = << >> THEN << >>
    ELSE GetOr(map, Head(days)) \o flatMapDays(Tail(days), map)

\* A hydration that leaves out the ids whose document is missing.
PromiseAllSettled(ids, records) ==
    LET found == SelectSeq(ids, LAMBDA id : id \in DOMAIN records) IN
    [ok |-> TRUE, list |-> [i \in DOMAIN found |-> records[found[i]]]]

\* Promise.all(ids.map(getTask)) / Promise.all(ids.map(getSession)): the
\* records in the order of the ids, or the rejection of the first readJson
\* that finds no document.
PromiseAll(ids, records) ==
    IF \A i \in DOMAIN ids : ids[i] \in DOMAIN records
    THEN [ok |-> TRUE, list |-> [i \in DOMAIN ids |-> records[ids[i]]]]
    ELSE [ok |-> FALSE, list |-> << >>]

\* reviewDataBetween(interval, sessionIndex, taskIndex)
reviewDataBetween(start, end, sIndex, tIndex) ==
    LET days == dayKeysForInterval(start, end)
        ofSessions == PromiseAll(flatMapDays(days, sIndex.byDate), sessions)
        ofCreated == PromiseAll(flatMapDays(days, tIndex.byCreationDate), tasks)
        ofCompleted == PromiseAll(flatMapDays(days, tIndex.byCompletionDate), tasks)
    IN  [ok |-> ofSessions.ok /\ ofCreated.ok /\ ofCompleted.ok,
         sessions |-> groupSessions(ofSessions.list),
         createdTasks |-> groupTasks(ofCreated.list),
         completedTasks |-> groupTasks(ofCompleted.list)]

\* group[projectName] ?? []
groupOf(group, field, projectName) ==
    IF \E i \in DOMAIN group : group[i].key = projectName
    THEN group[CHOOSE i \in DOMAIN group : group[i].key = projectName][field]
    ELSE << >>

\* A review that shows every project's sessions whatever project was asked for.
printReviewAllSessions(data, projectName, time) ==
    LET flatSessions == flattenSessions(data.sessions)
        created == IF projectName # Unset
                   THEN groupOf(data.createdTasks, "tasks", projectName)
                   ELSE flattenTasks(data.createdTasks)
        completed == IF projectName # Unset
                     THEN groupOf(data.completedTasks, "tasks", projectName)
                     ELSE flattenTasks(data.completedTasks)
    IN  [sessions |-> flatSessions,
         sessionCount |-> Len(flatSessions),
         total |-> sumDuration(flatSessions, time),
         createdTasks |-> created,
         createdCount |-> Len(created),
         completedTasks |-> completed,
         completedCount |-> Len(completed)]

\* printReview(data, projectName): the records printed, in the order printed,
\* the three counts of the headings and the total duration.
printReview(data, projectName, time) ==
    LET flatSessions == IF projectName # Unset
                        THEN groupOf(data.sessions, "sessions", projectName)
                        ELSE flattenSessions(data.sessions)
        created == IF projectName # Unset
                   THEN groupOf(data.createdTasks, "tasks", projectName)
                   ELSE flattenTasks(data.createdTasks)
        completed == IF projectName # Unset
                     THEN groupOf(data.completedTasks, "tasks", projectName)
                     ELSE flattenTasks(data.completedTasks)
    IN  [sessions |-> flatSessions,
         sessionCount |-> Len(flatSessions),
         total |-> sumDuration(flatSessions, time),
         createdTasks |-> created,
         createdCount |-> Len(created),
         completedTasks |-> completed,
         completedCount |-> Len(completed)]

\* The storage a review reads: up to two tasks and up to two sessions, made by
\* the create, complete, start and end commands at the first instant of the
\* first day or at the last instant of the clock.
ReviewTimes == {0, MaxTime}

ReviewIds == 1..2

TaskShapes ==
    {t \in [id : ReviewIds, isDone : BOOLEAN, created : ReviewTimes,
            projectName : ProjectNames \cup {Unset},
            completed : ReviewTimes \cup {Null}] :
        /\ t.isDone <=> t.completed # Null
        /\ t.completed # Null => t.completed >= t.created}

\* Task records in creation order.
TaskHistories ==
    UNION {{f \in [1..n -> TaskShapes] :
               /\ \A i \in 1..n : f[i].id = i
               /\ \A i \in 1..(n - 1) : f[i].created <= f[i + 1].created} :
           n \in {0} \cup ReviewIds}

SessionShapes ==
    {x \in [id : ReviewIds, projectName : ProjectNames, sessionStart : ReviewTimes,
            sessionEnd : ReviewTimes \cup {Null}] :
        x.sessionEnd # Null => x.sessionEnd >= x.sessionStart}

\* Session records in creation order: a session starts when none is ongoing.
SessionHistories ==
    UNION {{f \in [1..n -> SessionShapes] :
               /\ \A i \in 1..n : f[i].id = i
               /\ \A i \in 1..(n - 1) :
                     /\ f[i].sessionEnd # Null
                     /\ f[i].sessionEnd <= f[i + 1].sessionStart} :
           n \in {0} \cup ReviewIds}

\* The task as saveTask built it.
asCreated(task) == [task EXCEPT !.isDone = FALSE, !.completed = Null]

\* The task index after the tasks from the k-th on were created, each toggle
\* applied before the first creation that came after it.
RECURSIVE filedTasks(_, _, _)
filedTasks(history, k, index) ==
    IF k > Len(history) THEN index
    ELSE LET due == SelectSeq(SubSeq(history, 1, k),
                        LAMBDA t : /\ t.completed # Null
                                   /\ t.completed >= history[k].created
                                   /\ \/ k = Len(history)
                                      \/ t.completed < history[k + 1].created)
         IN  filedTasks(history, k + 1,
                        reindexAll(due, indexTask(asCreated(history[k]), index)))

RECURSIVE filedSessions(_, _, _)
filedSessions(history, k, index) ==
    IF k > Len(history) THEN index
    ELSE filedSessions(history, k + 1, addToIndex(history[k], index))

\* The largest timestamp on disk.
latestOf(taskHistory, sessionHistory) ==
    LET stamps == {0} \cup {taskHistory[i].created : i \in DOMAIN taskHistory}
                      \cup {taskHistory[i].completed : i \in DOMAIN taskHistory}
                      \cup {sessionHistory[i].sessionStart : i \in DOMAIN sessionHistory}
                      \cup {sessionHistory[i].sessionEnd : i \in DOMAIN sessionHistory}
    IN  CHOOSE t \in stamps : \A u \in stamps : u <= t

\* The record documents, one of them missing when `lost` names it: the
\* command that indexed it was interrupted before it wrote the record, or the
\* file was removed.
documentsOf(history, kind, lost) ==
    [id \in {i \in DOMAIN history : lost # <<kind, i>>} |-> history[id]]

InitReview ==
    \E taskHistory \in TaskHistories, sessionHistory \in SessionHistories :
    \E lost \in {<<"none", NoId>>}
                   \cup {<<"task", id>> : id \in DOMAIN taskHistory}
                   \cup {<<"session", id>> : id \in DOMAIN sessionHistory} :
        /\ now = latestOf(taskHistory, sessionHistory)
        /\ materialized = Paths
        /\ store = [projects |-> ({taskHistory[i].projectName : i \in DOMAIN taskHistory}
                                      \cup {sessionHistory[i].projectName :
                                               i \in DOMAIN sessionHistory})
                                     \ {Unset},
                    ongoingSession |->
                        IF /\ sessionHistory # << >>
                           /\ sessionHistory[Len(sessionHistory)].sessionEnd = Null
                        THEN Len(sessionHistory) ELSE NoId]
        /\ taskIndex = filedTasks(taskHistory, 1, INITIAL_TASK_INDEX)
        /\ tasks = documentsOf(taskHistory, "task", lost)
        /\ sessionIndex = filedSessions(sessionHistory, 1, INITIAL_SESSION_INDEX)
        /\ sessions = documentsOf(sessionHistory, "session", lost)
        /\ pc = "idle"
        /\ opts = NoOpts
        /\ cur = NoRecord
        /\ queue = << >>
        /\ toggled = << >>
        /\ mainStore = INITIAL_STORE
        /\ pending = {}
        /\ console = ""
        /\ trail = << >>

\* The project a review is narrowed to: --project, or with --current the
\* project of the ongoing session.
reviewProject(shouldShowCurrent, projectName) ==
    IF shouldShowCurrent
    THEN (IF getOngoingSession = NoRecord THEN Unset ELSE getOngoingSession.projectName)
    ELSE projectName

\* A run follows one review command and its repetitions at later times: a
\* review writes nothing to storage, so what any other review command would
\* show after it is what it shows as the first command of a run.
Repeats(start, end, shouldShowCurrent) ==
    trail # << >> =>
        /\ trail[1].start = start
        /\ trail[1].end = end
        /\ trail[1].current = shouldShowCurrent

\* review --week / --month: the indexes are loaded, the interval's records
\* hydrated and grouped, the review printed.
ReviewCmd ==
    \E shouldShowCurrent \in BOOLEAN, projectName \in ProjectNames \cup {Unset},
       start \in Days, end \in Days, time \in {t \in ReviewTimes : t >= now} :
        LET data == reviewDataBetween(start, end, sessionIndex, taskIndex) IN
        /\ Idle
        /\ start <= end
        /\ Repeats(start, end, shouldShowCurrent)
        /\ trail # << >> =>
              /\ "data" \in DOMAIN trail[1]
              /\ trail[1].projectName = reviewProject(shouldShowCurrent, projectName)
        /\ ~(shouldShowCurrent /\ projectName # Unset)    \* conflicts: ["project"]
        /\ shouldShowCurrent => CanGetOngoingSession
        /\ data.ok
        /\ now' = time
        /\ trail' = <<[start |-> start, end |-> end,
                       current |-> shouldShowCurrent,
                       projectName |-> reviewProject(shouldShowCurrent, projectName),
                       time |-> time,
                       data |-> data,
                       shown |-> printReview(data,
                                             reviewProject(shouldShowCurrent, projectName),
                                             time)]>>
        /\ console' = formatDuration(trail'[1].shown.total)
        /\ UNCHANGED <<materialized, store, taskIndex, tasks, sessionIndex, sessions,
                       pc, opts, cur, queue, toggled, mainStore, pending>>

\* The same command when a readJson finds no document: the rejection is not
\* caught and the command ends with it, nothing printed.
ReviewNotFound ==
    \E shouldShowCurrent \in BOOLEAN, projectName \in ProjectNames \cup {Unset},
       start \in Days, end \in Days :
        /\ Idle
        /\ start <= end
        /\ ~(shouldShowCurrent /\ projectName # Unset)
        /\ Repeats(start, end, shouldShowCurrent)
        /\ \/ shouldShowCurrent /\ ~CanGetOngoingSession
           \/ ~reviewDataBetween(start, end, sessionIndex, taskIndex).ok
        /\ trail' = <<[start |-> start, end |-> end, current |-> shouldShowCurrent,
                       error |-> "NotFound"]>>
        /\ console' = "error: Uncaught NotFound"
        /\ UNCHANGED <<now, materialized, store, taskIndex, tasks, sessionIndex, sessions,
                       pc, opts, cur, queue, toggled, mainStore, pending>>

NextReview ==
    \/ ReviewCmd
    \/ ReviewNotFound

SpecReview == InitReview /\ [][NextReview]_vars

\* ------------------------------------------- complete commands in a row
\* Any storage the create and complete commands leave behind; trail keeps the
\* task index and the task records as they were then.
InitToggle ==
    \E taskHistory \in TaskHistories :
        /\ now = latestOf(taskHistory, << >>)
        /\ materialized = Paths
        /\ store = [projects |-> {taskHistory[i].projectName : i \in DOMAIN taskHistory}
                                     \ {Unset},
                    ongoingSession |-> NoId]
        /\ taskIndex = filedTasks(taskHistory, 1, INITIAL_TASK_INDEX)
        /\ tasks = documentsOf(taskHistory, "task", <<"none", NoId>>)
        /\ sessionIndex = INITIAL_SESSION_INDEX
        /\ sessions = << >>
        /\ pc = "idle"
        /\ opts = NoOpts
        /\ cur = NoRecord
        /\ queue = << >>
        /\ toggled = << >>
        /\ mainStore = INITIAL_STORE
        /\ pending = {}
        /\ console = ""
        /\ trail = <<[index |-> taskIndex, tasks |-> tasks]>>

NextToggle ==
    \/ TaskCompleteCmd
    \/ ToggleWrite
    \/ ToggleIndex

SpecToggle == InitToggle /\ [][NextToggle]_vars

\* --------------------------------- two session-start invocations at once
\* Two invocations of `session start --project alpha` run against the same
\* storage directory, in which an earlier session of alpha was started and
\* ended. Each invocation is a record of `pending`: the process, the session
\* it built, how far it has come and the documents it loaded. trail logs the
\* guard evaluations and the store saves in the order they happened.
FirstSession ==
    [id |-> 1, projectName |-> "alpha", sessionStart |-> 0, sessionEnd |-> 0]

InitStarters ==
    /\ now = 0
    /\ materialized = {"store", "sessionIndex"}
    /\ store = [projects |-> {"alpha"}, ongoingSession |-> NoId]
    /\ taskIndex = INITIAL_TASK_INDEX
    /\ tasks = << >>
    /\ sessionIndex = addToIndex(FirstSession, INITIAL_SESSION_INDEX)
    /\ sessions = (1 :> FirstSession)
    /\ pc = "idle"
    /\ opts = NoOpts
    /\ cur = NoRecord
    /\ queue = << >>
    /\ toggled = << >>
    /\ mainStore = INITIAL_STORE
    /\ pending = {}
    /\ console = ""
    /\ trail = << >>

\* sessionStart, rejected: the store names an ongoing session.
StarterRejected ==
    \E p \in Procs :
        /\ FreeProc(p)
        /\ CanGetOngoingSession
        /\ hasOngoingSession
        /\ pending' = StartCall([proc |-> p, phase |-> "rejected",
                                 session |-> NoRecord,
                                 index |-> INITIAL_SESSION_INDEX,
                                 store |-> INITIAL_STORE])
        /\ trail' = Append(trail, <<"guard", p>>)
        /\ materialized' = loadWithDefault("store")
        /\ console' = "There is an ongoing session. Did you forget to end it?"
        /\ UNCHANGED <<now, store, taskIndex, tasks, sessionIndex, sessions,
                       pc, opts, cur, queue, toggled, mainStore>>

\* sessionStart, accepted: the guard finds no ongoing session and
\* createSession builds the session, of a project the store knows.
StarterBegin ==
    \E p \in Procs, time \in DateNow :
        LET used == DOMAIN sessions \cup {c.session.id : c \in pending} IN
        /\ FreeProc(p)
        /\ CanGetOngoingSession
        /\ ~hasOngoingSession
        /\ ~getProject("alpha", FALSE, "alpha").created
        /\ now' = time
        /\ pending' = StartCall([proc |-> p, phase |-> "index_load",
                                 session |-> [id |-> Cardinality(used) + 1,
                                              projectName |-> "alpha",
                                              sessionStart |-> time,
                                              sessionEnd |-> Null],
                                 index |-> INITIAL_SESSION_INDEX,
                                 store |-> INITIAL_STORE])
        /\ trail' = Append(trail, <<"guard", p>>)
        /\ materialized' = loadWithDefault("store")
        /\ UNCHANGED <<store, taskIndex, tasks, sessionIndex, sessions,
                       pc, opts, cur, queue, toggled, mainStore, console>>

\* addToIndex: const index = await loadSessionIndex()
StarterIndexLoad ==
    \E c \in pending :
        /\ c.phase = "index_load"
        /\ pending' = StartCall([c EXCEPT !.phase = "index_save", !.index = sessionIndex])
        /\ materialized' = loadWithDefault("sessionIndex")
        /\ UNCHANGED <<trail, now, store, taskIndex, tasks, sessionIndex, sessions,
                       pc, opts, cur, queue, toggled, mainStore, console>>

\* addToIndex: the lists are extended; await writeJson(SESSION_INDEX_PATH, index)
StarterIndexSave ==
    \E c \in pending :
        /\ c.phase = "index_save"
        /\ sessionIndex' = addToIndex(c.session, c.index)
        /\ pending' = StartCall([c EXCEPT !.phase = "record"])
        /\ UNCHANGED <<trail, now, materialized, store, taskIndex, tasks, sessions,
                       pc, opts, cur, queue, toggled, mainStore, console>>

\* saveSession: ensureFile(sessionPath); writeJson(sessionPath, session)
StarterWriteRecord ==
    \E c \in pending :
        /\ c.phase = "record"
        /\ sessions' = Put(sessions, c.session.id, c.session)
        /\ pending' = StartCall([c EXCEPT !.phase = "store_load"])
        /\ UNCHANGED <<trail, now, materialized, store, taskIndex, tasks, sessionIndex,
                       pc, opts, cur, queue, toggled, mainStore, console>>

\* setStore: const store = await loadStore()
StarterStoreLoad ==
    \E c \in pending :
        /\ c.phase = "store_load"
        /\ pending' = StartCall([c EXCEPT !.phase = "store_save", !.store = store])
        /\ materialized' = loadWithDefault("store")
        /\ UNCHANGED <<trail, now, store, taskIndex, tasks, sessionIndex, sessions,
                       pc, opts, cur, queue, toggled, mainStore, console>>

\* setStore: Object.assign(store, {ongoingSession: session.id}); saveStore
StarterStoreSave ==
    \E c \in pending :
        /\ c.phase = "store_save"
        /\ store' = assignStore(c.store, c.session.id)
        /\ pending' = StartCall([c EXCEPT !.phase = "started"])
        /\ trail' = Append(trail, <<"registered", c.proc>>)
        /\ console' = "Session Started! Get to work!"
        /\ UNCHANGED <<now, materialized, taskIndex, tasks, sessionIndex, sessions,
                       pc, opts, cur, queue, toggled, mainStore>>

NextStarters ==
    \/ StarterRejected
    \/ StarterBegin
    \/ StarterIndexLoad
    \/ StarterIndexSave
    \/ StarterWriteRecord
    \/ StarterStoreLoad
    \/ StarterStoreSave

SpecStarters == InitStarters /\ [][NextStarters]_vars

\* ===================================================== claims: task index
\* C1 - Index completeness: whenever no command is running, the id of every
\* task created so far occurs exactly once in taskIndex.all (and all lists
\* nothing but created tasks).
C1_IndexCompleteness ==
    Idle => /\ \A id \in DOMAIN tasks : Count(taskIndex.all, id) = 1
            /\ Range(taskIndex.all) \subseteq DOMAIN tasks

\* Two tasks exist, one of them toggled to done by a completed batch toggle.
C1_Witness ==
    /\ Idle
    /\ Cardinality(DOMAIN tasks) = 2
    /\ \E id \in DOMAIN tasks : tasks[id].isDone

\* C2 - Incomplete membership: whenever no command is running, a task id is in
\* taskIndex.incomplete, and then exactly once, iff its record has isDone = false.
C2_IncompleteMembership ==
    Idle => \A id \in DOMAIN tasks :
                Count(taskIndex.incomplete, id) = (IF tasks[id].isDone THEN 0 ELSE 1)

\* The second task is done; the first, reindexed after the second was created,
\* was completed and reopened.
C2_Witness ==
    /\ Idle
    /\ \E id \in DOMAIN tasks : tasks[id].isDone
    /\ \E id \in DOMAIN tasks :
          /\ ~tasks[id].isDone
          /\ id = 1
          /\ taskIndex.incomplete = <<1>>
          /\ taskIndex.all = <<1, 2>>

\* C3 - Project/inbox membership: whenever no command is running, a task id is
\* in taskIndex.inbox iff its record has no projectName; a task of project P is
\* exactly once in byProject[P], in no other byProject list and not in inbox.
C3_ProjectMembership ==
    Idle => \A id \in DOMAIN tasks :
                /\ inList(taskIndex.inbox, id) <=> tasks[id].projectName = Unset
                /\ \A name \in DOMAIN taskIndex.byProject :
                      Count(taskIndex.byProject[name], id)
                          = (IF tasks[id].projectName = name THEN 1 ELSE 0)
                /\ tasks[id].projectName # Unset
                      => tasks[id].projectName \in DOMAIN taskIndex.byProject

\* An inbox task and a task of the project named "inbox" exist, one toggled.
C3_Witness ==
    /\ Idle
    /\ \E a, b \in DOMAIN tasks :
          /\ tasks[a].projectName = Unset
          /\ tasks[b].projectName = "inbox"
          /\ tasks[a].isDone
          /\ tasks[b].isDone

\* C4 - Completion bucketing: whenever no command is running, a task id is in
\* byCompletionDate[day] iff its record has completed set and
\* toDateString(completed) = day; so a reopened task is in no bucket and no
\* task is in two buckets.
C4_CompletionBucketing ==
    Idle => \A id \in DOMAIN tasks : \A day \in Days \cup DOMAIN taskIndex.byCompletionDate :
                Count(GetOr(taskIndex.byCompletionDate, day), id)
                    = (IF tasks[id].completed # Null /\ toDateString(tasks[id].completed) = day
                       THEN 1 ELSE 0)

\* A task completed on the second day, after it had been completed on the
\* first day and reopened.
C4_Witness ==
    /\ Idle
    /\ \E id \in DOMAIN tasks :
          /\ tasks[id].completed # Null
          /\ toDateString(tasks[id].completed) = 1
          /\ 0 \in DOMAIN taskIndex.byCompletionDate
          /\ taskIndex.byCompletionDate[0] = << >>

\* C5 - For every stored task record completed is set iff isDone: a record is
\* first written with isDone = false and completed unset, and every rewrite
\* flips isDone, stamps completed with the clock reading when the task becomes
\* done and clears it when the task becomes not-done.
C5_RecordStep ==
    \A id \in DOMAIN tasks' :
        /\ tasks'[id].isDone <=> tasks'[id].completed # Null
        /\ id \notin DOMAIN tasks =>
              ~tasks'[id].isDone /\ tasks'[id].completed = Null
        /\ id \in DOMAIN tasks /\ tasks'[id] # tasks[id] =>
              /\ tasks'[id].isDone = ~tasks[id].isDone
              /\ tasks'[id].completed = (IF tasks'[id].isDone THEN now' ELSE Null)

C5_CompletedIffDone == [][C5_RecordStep]_vars

\* A task that was completed and reopened, next to one that is done.
C5_Witness ==
    /\ \E id \in DOMAIN tasks : tasks[id].isDone /\ tasks[id].completed = now
    /\ \E id \in DOMAIN tasks :
          /\ ~tasks[id].isDone
          /\ ~inList(taskIndex.incomplete, id)

\* Every list of the index, whole lists and map values alike.
IndexLists(index) ==
    {index.all, index.inbox, index.incomplete}
        \cup Range(index.byProject)
        \cup Range(index.byCreationDate)
        \cup Range(index.byCompletionDate)

\* C6 - Reindex idempotence: for any task index and any task, the index after
\* reindexTask(task) was applied twice in a row equals, list for list and in
\* order, the index after it was applied once, and after either application no
\* list holds task.id more than once.
C6_ReindexIdempotent ==
    pc = "reindex" =>
        /\ Len(trail) = 3 => trail[3] = trail[2]
        /\ Len(trail) >= 2 =>
              \A list \in IndexLists(trail[Len(trail)]) : Count(list, cur.id) <= 1

\* Reindexed twice, from an index that held the id twice in all and twice
\* under a project the task does not belong to.
C6_Witness ==
    /\ pc = "reindex"
    /\ Len(trail) = 3
    /\ Count(trail[1].all, cur.id) = 2
    /\ cur.projectName = "alpha"
    /\ "inbox" \in DOMAIN trail[1].byProject
    /\ Count(trail[1].byProject["inbox"], cur.id) = 2
    /\ trail[2] # trail[1]

\* ======================================================= claims: sessions
OngoingRecords == {id \in DOMAIN sessions : sessions[id].sessionEnd = Null}

\* C7 - Session singleton: with commands run one at a time, whenever no
\* command is running at most one session record has sessionEnd unset, and if
\* one has, store.ongoingSession holds exactly its id.
C7_SessionSingleton ==
    Idle => /\ Cardinality(OngoingRecords) <= 1
            /\ \A id \in OngoingRecords : store.ongoingSession = id

\* C8 - A command rejected by its guard changes nothing: a session-start
\* issued while a session is ongoing is not accepted, a session-end issued
\* while none is ongoing is not accepted, and the step in which either returns
\* at its guard leaves the store, the session index and every session record
\* as they were.
C8_RejectedStep ==
    /\ Idle
    /\ pc' = "idle"
    /\ \/ /\ store.ongoingSession # NoId
          /\ console' = "There is an ongoing session. Did you forget to end it?"
       \/ /\ store.ongoingSession = NoId
          /\ console' = "There is no ongoing session. Did you forget to start it?"

C8_Step ==
    /\ Idle /\ store.ongoingSession # NoId => pc' # "start_index"
    /\ Idle /\ store.ongoingSession = NoId => pc' # "end_setstore"
    /\ C8_RejectedStep =>
          /\ store' = store
          /\ sessionIndex' = sessionIndex
          /\ sessions' = sessions
          /\ pending' = pending

C8_RejectedChangesNothing == [][C8_Step]_vars

\* A session-start was rejected while session 1 was ongoing.
C8_Witness ==
    /\ Idle
    /\ console = "There is an ongoing session. Did you forget to end it?"
    /\ store.ongoingSession = 1
    /\ DOMAIN sessions = {1}
    /\ sessions[1].sessionEnd = Null
    /\ sessionIndex.ordered = <<1>>

\* C9 - ENDED is terminal: no step removes a session record or changes one
\* that has sessionEnd set; a step that changes a record is the session-end
\* stamping the record store.ongoingSession names, which had sessionEnd unset;
\* and whenever a command can be issued the pointer names no ended session.
C9_Step ==
    /\ DOMAIN sessions \subseteq DOMAIN sessions'
    /\ \A id \in DOMAIN sessions :
          /\ sessions[id].sessionEnd # Null => sessions'[id] = sessions[id]
          /\ sessions'[id] # sessions[id] =>
                /\ id = store.ongoingSession
                /\ sessions[id].sessionEnd = Null
                /\ sessions'[id] = [sessions[id] EXCEPT !.sessionEnd = now']
    /\ Idle /\ store.ongoingSession # NoId =>
          /\ store.ongoingSession \in DOMAIN sessions
          /\ sessions[store.ongoingSession].sessionEnd = Null

C9_EndedIsTerminal == [][C9_Step]_vars

\* Session 1 was ended, then session 2 was started and ended later on.
C9_Witness ==
    /\ Idle
    /\ DOMAIN sessions = {1, 2}
    /\ sessions[1].sessionEnd # Null
    /\ sessions[2].sessionEnd # Null
    /\ sessions[2].sessionEnd > sessions[1].sessionEnd

\* C10 - After an accepted session-end has completed the ended session's
\* record has sessionEnd set and store.ongoingSession is unset, so that the
\* next session-start passes its guard; and after that session-start has
\* completed the session it created is ongoing: its record has sessionEnd
\* unset and store.ongoingSession holds its id.
C10_EndThenStart ==
    /\ Idle /\ console = "Good job! Your session has been logged." =>
          /\ sessions[cur.id].sessionEnd # Null
          /\ store.ongoingSession = NoId
          /\ getOngoingSession = NoRecord
    /\ /\ Idle
       /\ console = "Session Started! Get to work!"
       /\ cur.id - 1 \in DOMAIN sessions
       /\ sessions[cur.id - 1].sessionEnd # Null
       => /\ cur.id \in DOMAIN sessions
          /\ sessions[cur.id].sessionEnd = Null
          /\ store.ongoingSession = cur.id

\* ================================================= claims: session index
\* C11 - Session index completeness: every saved session id is exactly once
\* in sessionIndex.ordered, exactly once in byProject[its projectName] and in
\* no other project's list, exactly once in byDate[day of its sessionStart]
\* and in no other day's list; so a second session started on a day does not
\* drop the first from that day's list.
C11_SessionIndexCompleteness ==
    \A id \in DOMAIN sessions :
        /\ Count(sessionIndex.ordered, id) = 1
        /\ \A name \in ProjectNames \cup DOMAIN sessionIndex.byProject :
              Count(GetOr(sessionIndex.byProject, name), id)
                  = (IF sessions[id].projectName = name THEN 1 ELSE 0)
        /\ \A day \in Days \cup DOMAIN sessionIndex.byDate :
              Count(GetOr(sessionIndex.byDate, day), id)
                  = (IF toDateString(sessions[id].sessionStart) = day THEN 1 ELSE 0)

\* Two sessions of one project were started on the same day.
C11_Witness ==
    /\ Idle
    /\ DOMAIN sessions = {1, 2}
    /\ sessions[1].projectName = sessions[2].projectName
    /\ toDateString(sessions[1].sessionStart) = toDateString(sessions[2].sessionStart)
    /\ sessionIndex.byDate[toDateString(sessions[1].sessionStart)] = <<1, 2>>

\* C12 - Ending a session leaves the session index unchanged: no step of an
\* accepted session-end changes ordered, byProject or byDate, and an ended
\* session is listed under the day of its sessionStart, not under the day of
\* its sessionEnd when that is a later day.
C12_Step ==
    pc' = "end_setstore" \/ pc \in {"end_setstore", "end_setstore_save"}
        => sessionIndex' = sessionIndex

C12_EndedStaysFiled ==
    \A id \in DOMAIN sessions :
        sessions[id].sessionEnd # Null =>
            /\ Count(GetOr(sessionIndex.byDate, toDateString(sessions[id].sessionStart)),
                     id) = 1
            /\ toDateString(sessions[id].sessionEnd)
                   # toDateString(sessions[id].sessionStart)
               => Count(GetOr(sessionIndex.byDate, toDateString(sessions[id].sessionEnd)),
                        id) = 0

C12_EndLeavesIndex == [][C12_Step]_vars /\ []C12_EndedStaysFiled

\* Session 1 was started on the first day and ended on the second.
C12_Witness ==
    /\ Idle
    /\ console = "Good job! Your session has been logged."
    /\ 1 \in DOMAIN sessions
    /\ toDateString(sessions[1].sessionStart) = 0
    /\ sessions[1].sessionEnd # Null
    /\ toDateString(sessions[1].sessionEnd) = 1
    /\ sessionIndex.byDate = (0 :> <<1>>)

\* ================================================ claims: order of writes
\* Every id a task index document lists, in any of its lists.
IndexedTaskIds(index) ==
    UNION {Range(list) : list \in IndexLists(index)}

\* C13 - createTask persists the record before it inserts the id into the
\* task index: in every reachable state, between the two writes included,
\* every id the task index lists has a record document.
C13_IndexedTasksHaveRecords ==
    IndexedTaskIds(taskIndex) \subseteq DOMAIN tasks

\* Every id the session index document lists, in any of its lists.
IndexedSessionIds(index) ==
    Range(index.ordered)
        \cup UNION {Range(list) : list \in Range(index.byProject)}
        \cup UNION {Range(list) : list \in Range(index.byDate)}

\* C14 - createSession writes the session record, then registers it in the
\* store, then appends it to the session index: in every reachable state
\* every id the session index lists has a record document, and a session is
\* indexed only once the store names it as ongoing.
C14_Step ==
    \A id \in IndexedSessionIds(sessionIndex') \ IndexedSessionIds(sessionIndex) :
        /\ id \in DOMAIN sessions
        /\ store.ongoingSession = id

C14_IndexedSessionsHaveRecords ==
    [](IndexedSessionIds(sessionIndex) \subseteq DOMAIN sessions) /\ [][C14_Step]_vars

\* ============================================ claims: index functions
\* The list with every occurrence of the id taken out, the rest as it was.
Others(list, id) == SelectSeq(list, LAMBDA x : x # id)

ListFields == {"all", "inbox", "incomplete"}
MapFields == {"byProject", "byCreationDate", "byCompletionDate"}

\* C15 - deindexTask(task) removes task.id from all, inbox, incomplete and
\* from every byProject, byCreationDate and byCompletionDate list, and changes
\* nothing else: each list keeps its other ids in their order and each map
\* keeps its keys.
C15_DeindexFrame ==
    pc = "deindex" /\ Len(trail) = 2 =>
        /\ \A f \in ListFields : trail[2][f] = Others(trail[1][f], cur.id)
        /\ \A f \in MapFields :
              /\ DOMAIN trail[2][f] = DOMAIN trail[1][f]
              /\ \A k \in DOMAIN trail[1][f] :
                    trail[2][f][k] = Others(trail[1][f][k], cur.id)
        /\ cur.id \notin IndexedTaskIds(trail[2])

\* The id was deindexed from between two other ids in all, and from the list
\* of a project the task does not belong to.
C15_Witness ==
    /\ pc = "deindex"
    /\ Len(trail) = 2
    /\ trail[1].all = <<3, 1, 2>>
    /\ trail[2].all = <<3, 2>>
    /\ cur.projectName = "alpha"
    /\ "inbox" \in DOMAIN trail[1].byProject
    /\ trail[1].byProject["inbox"] = <<1, 1>>
    /\ trail[2].byProject["inbox"] = << >>

\* The map `after` is `before` with the id put at the head of the list under
\* key, a list that starts empty when `before` has no such key.
HeadedUnder(after, before, key, id) ==
    /\ DOMAIN after = DOMAIN before \cup {key}
    /\ after[key] = <<id>> \o (IF key \in DOMAIN before THEN before[key] ELSE << >>)
    /\ \A k \in DOMAIN before \ {key} : after[k] = before[k]

\* C16 - indexNewTask(task) on an index that does not list task.id puts the id
\* at the head of all; at the head of inbox iff projectName is unset and at
\* the head of byProject[projectName] iff it is set; at the head of incomplete
\* iff the task is not done; at the head of byCreationDate[day of created];
\* at the head of byCompletionDate[day of completed] iff completed is set. A
\* missing bucket becomes the one-element list, previous entries follow in
\* their order, and nothing else changes.
C16_IndexNewTask ==
    pc = "index" /\ Len(trail) = 2 =>
        LET before == trail[1]
            after == trail[2]
        IN /\ after.all = <<cur.id>> \o before.all
           /\ after.inbox = (IF cur.projectName = Unset
                             THEN <<cur.id>> \o before.inbox ELSE before.inbox)
           /\ after.incomplete = (IF ~cur.isDone
                                  THEN <<cur.id>> \o before.incomplete
                                  ELSE before.incomplete)
           /\ IF cur.projectName # Unset
              THEN HeadedUnder(after.byProject, before.byProject,
                               cur.projectName, cur.id)
              ELSE after.byProject = before.byProject
           /\ HeadedUnder(after.byCreationDate, before.byCreationDate,
                          toDateString(cur.created), cur.id)
           /\ IF cur.completed # Null
              THEN HeadedUnder(after.byCompletionDate, before.byCompletionDate,
                               toDateString(cur.completed), cur.id)
              ELSE after.byCompletionDate = before.byCompletionDate

\* A completed task of project alpha was indexed where alpha had no bucket
\* yet and the first day's completion bucket held three ids.
C16_Witness ==
    /\ pc = "index"
    /\ Len(trail) = 2
    /\ cur.projectName = "alpha"
    /\ cur.isDone
    /\ cur.completed = 0
    /\ trail[1].byProject = ("inbox" :> << >>)
    /\ trail[2].byProject["alpha"] = <<4>>
    /\ trail[1].all = <<3, 1, 2>>
    /\ trail[2].all = <<4, 3, 1, 2>>
    /\ trail[2].byCompletionDate = (0 :> <<4, 3, 1, 2>>)

\* ================================================== claims: list order
\* The sequence small is what is left of big when some entries are dropped.
RECURSIVE IsSubsequence(_, _)
IsSubsequence(small, big) ==
    IF small = << >> THEN TRUE
    ELSE IF big = << >> THEN FALSE
    ELSE IF Head(small) = Head(big) THEN IsSubsequence(Tail(small), Tail(big))
    ELSE IsSubsequence(small, Tail(big))

\* C17 - Session index lists are append-ordered: sessionIndex.ordered lists
\* the session ids in the order the sessions were created, oldest first, and
\* each byProject and byDate list is a subsequence of ordered.
C17_AppendOrdered ==
    /\ \A i, j \in DOMAIN sessionIndex.ordered :
          i < j => sessionIndex.ordered[i] < sessionIndex.ordered[j]
    /\ \A name \in DOMAIN sessionIndex.byProject :
          IsSubsequence(sessionIndex.byProject[name], sessionIndex.ordered)
    /\ \A day \in DOMAIN sessionIndex.byDate :
          IsSubsequence(sessionIndex.byDate[day], sessionIndex.ordered)

\* Two sessions of one project, the second started on a later day.
C17_Witness ==
    /\ Idle
    /\ sessionIndex.ordered = <<1, 2>>
    /\ sessionIndex.byProject = ("alpha" :> <<1, 2>>)
    /\ sessionIndex.byDate = (0 :> <<1>>) @@ (1 :> <<2>>)

\* Ids are handed out in creation order, so newest first is largest id first.
NewestFirst(list) == \A i, j \in DOMAIN list : i < j => list[i] > list[j]

\* C18 - Newest-first ordering: whenever no command is running,
\* taskIndex.all and each byProject and byCreationDate list hold their ids in
\* decreasing order of creation; a toggle does not move an older task ahead
\* of a task created after it.
C18_NewestFirst ==
    Idle => /\ NewestFirst(taskIndex.all)
            /\ \A name \in DOMAIN taskIndex.byProject :
                  NewestFirst(taskIndex.byProject[name])
            /\ \A day \in DOMAIN taskIndex.byCreationDate :
                  NewestFirst(taskIndex.byCreationDate[day])

\* ================================================== claims: batch toggle
\* The index files the task as its record says: in incomplete iff not done,
\* in the completion bucket of its completed day iff completed is set.
FiledAsRecorded(index, task) ==
    /\ Count(index.all, task.id) = 1
    /\ Count(index.incomplete, task.id) = (IF task.isDone THEN 0 ELSE 1)
    /\ \A day \in Days \cup DOMAIN index.byCompletionDate :
          Count(GetOr(index.byCompletionDate, day), task.id)
              = (IF task.completed # Null /\ toDateString(task.completed) = day
                 THEN 1 ELSE 0)

\* C19 - A batch toggle of N tasks saves the task index once, with all N
\* reindex steps applied: while a complete command runs, the only step that
\* changes the index document is its last one, taken when none of the toggled
\* records is left unwritten, and the index it saves files every toggled task
\* as its rewritten record says, so no saved index reflects part of a batch.
C19_Step ==
    opts.cmd = "complete" =>
        /\ pc' = "idle" => pc = "toggle_index"
        /\ pc # "toggle_index" => taskIndex' = taskIndex
        /\ pc = "toggle_index" =>
              /\ queue = << >>
              /\ \A i \in DOMAIN toggled :
                    /\ tasks[toggled[i].id] = toggled[i]
                    /\ FiledAsRecorded(taskIndex', toggled[i])
              /\ \A id \in DOMAIN tasks \ {toggled[i].id : i \in DOMAIN toggled} :
                    FiledAsRecorded(taskIndex', tasks[id])
                        <=> FiledAsRecorded(taskIndex, tasks[id])

C19_BatchToggle == [][C19_Step]_vars

\* Both records of a batch of two are rewritten and the index is still as it
\* was loaded for the listing.
C19_Witness ==
    /\ pc = "toggle_index"
    /\ Len(toggled) = 2
    /\ toggled[1].isDone
    /\ ~toggled[2].isDone
    /\ inList(taskIndex.incomplete, toggled[1].id)
    /\ ~inList(taskIndex.incomplete, toggled[2].id)

\* ================================================ claims: two invocations
\* C20 - Last writer wins on the task index: when two invocations working on
\* different tasks have both loaded the index before either saved it, the
\* save of the second leaves the index it loaded with its own change alone;
\* the change of the first is lost: a task the first created is in no list
\* of the index, a task the first toggled is filed as before the toggle.
C20_Step ==
    \A p, q \in Procs :
        (/\ p # q
         /\ HasCall(pending, p)
         /\ HasCall(pending, q)
         /\ HasCall(pending', q)
         /\ CallOf(pending, q).phase = "save"
         /\ CallOf(pending', q).phase # "save"
         /\ CallOf(pending, p).saved
         /\ CallOf(pending, p).index = CallOf(pending, q).index
         /\ CallOf(pending, p).task.id # CallOf(pending, q).task.id)
        => LET first == CallOf(pending, p)
               last == CallOf(pending, q)
           IN /\ taskIndex' = modifier(last, last.index)
              /\ IF first.kind = "create"
                 THEN first.task.id \notin IndexedTaskIds(taskIndex')
                 ELSE Count(taskIndex'.incomplete, first.task.id)
                          = Count(last.index.incomplete, first.task.id)

C20_LastWriterWins == [][C20_Step]_vars

\* One invocation created task 2 while the other toggled task 1; both loaded
\* the same index, the creator saved first: task 2 has its record and is
\* missing from taskIndex.all.
C20_Witness ==
    \E a, b \in pending :
        /\ a.kind = "create"
        /\ a.phase = "done"
        /\ b.kind = "toggle"
        /\ b.phase = "done"
        /\ a.index = b.index
        /\ a.task.id \in DOMAIN tasks
        /\ ~inList(taskIndex.all, a.task.id)
        /\ tasks[b.task.id].isDone
        /\ ~inList(taskIndex.incomplete, b.task.id)

\* ==================================================== claims: task create
\* C30 - tasks create --dump --project P adds each task to project P without
\* prompting: once saveTask has indexed the task it has built, the task has
\* projectName = P and its id is in byProject[P] and not in inbox; with --dump
\* alone the task has no project and its id is in inbox.
C30_DumpWithProject ==
    pc = "create_write" /\ opts.dump =>
        IF opts.projectName # Unset
        THEN /\ cur.projectName = opts.projectName
             /\ inList(GetOr(taskIndex.byProject, opts.projectName), cur.id)
             /\ ~inList(taskIndex.inbox, cur.id)
        ELSE /\ cur.projectName = Unset
             /\ inList(taskIndex.inbox, cur.id)

\* ================================================== claims: date bucketing
\* Two timestamps of the same calendar day.
SameDay(s, t) == s \div DayLen = t \div DayLen

\* The creation-day buckets that list the id.
CreationBuckets(index, id) ==
    {day \in DOMAIN index.byCreationDate : inList(index.byCreationDate[day], id)}

\* C26 - Date bucketing: whenever no command is running every task is in one
\* byCreationDate bucket, two tasks created on the same calendar day are in
\* the same bucket and two created on different days in different buckets; no
\* step changes a record's created, and the index save of a toggle leaves
\* every task in the bucket it was in.
C26_Buckets ==
    Idle => \A a, b \in DOMAIN tasks :
                /\ Cardinality(CreationBuckets(taskIndex, a)) = 1
                /\ SameDay(tasks[a].created, tasks[b].created)
                      <=> CreationBuckets(taskIndex, a) = CreationBuckets(taskIndex, b)

C26_Step ==
    /\ \A id \in DOMAIN tasks : tasks'[id].created = tasks[id].created
    /\ pc = "toggle_index" =>
          \A id \in DOMAIN tasks :
              CreationBuckets(taskIndex', id) = CreationBuckets(taskIndex, id)

C26_DateBucketing == []C26_Buckets /\ [][C26_Step]_vars

\* Two tasks created at different times of the first day share its bucket
\* after the older one was toggled.
C26_Witness ==
    /\ Idle
    /\ DOMAIN tasks = {1, 2}
    /\ tasks[1].created # tasks[2].created
    /\ SameDay(tasks[1].created, tasks[2].created)
    /\ tasks[1].isDone
    /\ taskIndex.byCreationDate = (0 :> <<1, 2>>)

\* ======================================================= claims: setStore
\* C28 - setStore(modification) changes only the fields modification names:
\* the step in which setOngoingSession or clearOngoingSession saves the store
\* sets ongoingSession as asked and leaves store.projects as it was on disk;
\* the document it saves is the one its own call loaded, not a copy kept from
\* an earlier operation.
C28_Step ==
    pc \in {"start_setstore_save", "end_setstore_save"} =>
        /\ store'.ongoingSession = storeModification
        /\ store'.projects = store.projects

C24_FormatDuration ==
    pc = "format" /\ Len(trail) = 2 =>
        LET d == trail[1] IN
        /\ \E H \in 0..(MaxHours + 1), M \in 0..59, S \in 0..59 :
              /\ H * 3600000 + M * 60000 + S * 1000 <= d
              /\ d < H * 3600000 + M * 60000 + S * 1000 + 1000
              /\ console = ToString(H) \o "h " \o ToString(M) \o "m "
                               \o ToString(S) \o "s"
        /\ d = 5425000 => console = "1h 30m 25s"

\* 1h 30m 25s was printed.
C24_Witness ==
    /\ pc = "format"
    /\ trail = <<5425000, "1h 30m 25s">>
    /\ console = "1h 30m 25s"

\* ================================================ claims: loadWithDefault
\* C27 - loadWithDefault: loading a path that holds no file or a file of no
\* bytes writes the default to the path and returns it; loading a non-empty
\* file that does not parse, a truncated JSON document included, throws and
\* leaves the file as it was, never replaced by the default.
C27_LoadWithDefault ==
    pc = "load" =>
        \A i \in 1..(Len(trail) - 1) :
            LET before == trail[i].file
                after == trail[i + 1]
            IN /\ before.kind \in {"absent", "empty"} =>
                     /\ after.file = [kind |-> "valid", value |-> DefaultOf(after.path)]
                     /\ after.returned = DefaultOf(after.path)
                     /\ after.thrown = << >>
               /\ before.kind \in {"truncated", "garbled"} =>
                     /\ after.thrown # << >>
                     /\ after.file = before

\* ========================================================= claims: review
\* A review has been printed; trail holds what was asked and what was shown.
Reviewed == pc = "idle" /\ trail # << >> /\ "data" \in DOMAIN trail[1]

\* How often the record is in the groups' lists.
Occurrences(group, field, record) ==
    Cardinality({<<i, j>> \in (DOMAIN group) \X ReviewIds :
                    j \in DOMAIN group[i][field] /\ group[i][field][j] = record})

\* Every record the groups' lists hold.
GroupedRecords(group, field) ==
    UNION {Range(group[i][field]) : i \in DOMAIN group}

\* The timestamp is set and its calendar day is one of start..end.
InDays(t, start, end) == t # Null /\ start <= t \div DayLen /\ t \div DayLen <= end

\* C21 - Review range aggregation: for an interval [start, end]
\* reviewDataBetween returns each session whose sessionStart day is one of
\* start..end, both ends included, once and no other session; as createdTasks
\* each task whose created day is in the interval, once, and no other; as
\* completedTasks each task whose completed day is in it, once, and no other.
C21_ReviewRange ==
    Reviewed =>
        LET r == trail[1] IN
        /\ \A id \in DOMAIN sessions :
              Occurrences(r.data.sessions, "sessions", sessions[id])
                  = (IF InDays(sessions[id].sessionStart, r.start, r.end) THEN 1 ELSE 0)
        /\ GroupedRecords(r.data.sessions, "sessions") \subseteq Range(sessions)
        /\ \A id \in DOMAIN tasks :
              /\ Occurrences(r.data.createdTasks, "tasks", tasks[id])
                    = (IF InDays(tasks[id].created, r.start, r.end) THEN 1 ELSE 0)
              /\ Occurrences(r.data.completedTasks, "tasks", tasks[id])
                    = (IF InDays(tasks[id].completed, r.start, r.end) THEN 1 ELSE 0)
        /\ GroupedRecords(r.data.createdTasks, "tasks") \subseteq Range(tasks)
        /\ GroupedRecords(r.data.completedTasks, "tasks") \subseteq Range(tasks)

\* A review of both days returned the session of the first day and the
\* session of the second, and a task created on the first day and completed
\* on the second.
C21_Witness ==
    /\ Reviewed
    /\ trail[1].start = 0
    /\ trail[1].end = 1
    /\ DOMAIN sessions = {1, 2}
    /\ sessions[1].sessionStart \div DayLen = 0
    /\ sessions[2].sessionStart \div DayLen = 1
    /\ GroupedRecords(trail[1].data.sessions, "sessions") = {sessions[1], sessions[2]}
    /\ \E id \in DOMAIN tasks :
          /\ tasks[id].created \div DayLen = 0
          /\ tasks[id].completed # Null
          /\ tasks[id].completed \div DayLen = 1
          /\ tasks[id] \in GroupedRecords(trail[1].data.createdTasks, "tasks")
          /\ tasks[id] \in GroupedRecords(trail[1].data.completedTasks, "tasks")

\* The positions of the list whose record goes under the key, in list order.
KeyedPositions(list, key, KeyOf(_)) ==
    SelectSeq([i \in DOMAIN list |-> i], LAMBDA i : KeyOf(list[i]) = key)

\* The group holds, for each key some record of the list has and for no
\* other, one entry, and the entry lists that key's records in list order.
GroupsByKey(group, field, list, KeyOf(_)) ==
    /\ {group[i].key : i \in DOMAIN group} = {KeyOf(list[j]) : j \in DOMAIN list}
    /\ \A i, j \in DOMAIN group : group[i].key = group[j].key => i = j
    /\ \A i \in DOMAIN group :
          LET at == KeyedPositions(list, group[i].key, KeyOf) IN
          group[i][field] = [k \in DOMAIN at |-> list[at[k]]]

\* One list is the other in some order, no record lost and none repeated.
IsPermutation(a, b) ==
    /\ Len(a) = Len(b)
    /\ \A x \in Range(a) \cup Range(b) : Count(a, x) = Count(b, x)

TaskKey(task) == IF task.projectName = Unset THEN "inbox" ELSE task.projectName

SessionKey(session) == session.projectName

\* The list a review hydrated for the bucket of its interval.
HydratedList(map, records) ==
    LET ids == flatMapDays(dayKeysForInterval(trail[1].start, trail[1].end), map)
    IN  [i \in DOMAIN ids |-> records[ids[i]]]

\* C22 - Grouping: groupTasks and groupSessions put every record of the input
\* list in exactly one group, keyed by its projectName, a task with no
\* projectName under "inbox"; within a group the records keep the order of the
\* input list; flattening the groups gives a permutation of the input.
C22_Grouping ==
    Reviewed =>
        LET r == trail[1]
            created == HydratedList(taskIndex.byCreationDate, tasks)
            completed == HydratedList(taskIndex.byCompletionDate, tasks)
            started == HydratedList(sessionIndex.byDate, sessions)
        IN /\ GroupsByKey(r.data.createdTasks, "tasks", created, TaskKey)
           /\ GroupsByKey(r.data.completedTasks, "tasks", completed, TaskKey)
           /\ GroupsByKey(r.data.sessions, "sessions", started, SessionKey)
           /\ IsPermutation(flattenTasks(r.data.createdTasks), created)
           /\ IsPermutation(flattenTasks(r.data.completedTasks), completed)
           /\ IsPermutation(flattenSessions(r.data.sessions), started)

\* Two tasks of one project, created on different days, were grouped behind
\* each other in the order of the interval's ids, and two sessions of
\* different projects went to two groups.
C22_Witness ==
    /\ Reviewed
    /\ Len(trail[1].data.createdTasks) = 1
    /\ Len(trail[1].data.createdTasks[1].tasks) = 2
    /\ trail[1].data.createdTasks[1].tasks[1].id = 1
    /\ trail[1].data.createdTasks[1].tasks[1].created
           # trail[1].data.createdTasks[1].tasks[2].created
    /\ Len(trail[1].data.sessions) = 2

C23_WitnessEmpty ==
    /\ Reviewed
    /\ trail[1].projectName = "alpha"
    /\ trail[1].shown.sessions = << >>
    /\ trail[1].shown.total = 0
    /\ \E id \in DOMAIN sessions : sessions[id].projectName = "alpha"
    /\ trail[1].data.sessions # << >>

\* The duration of a session at the clock reading: up to its end, or so far.
DurationAt(session, time) ==
    (IF session.sessionEnd = Null THEN time ELSE session.sessionEnd) - session.sessionStart

\* The sum of the durations of the sessions at the positions, taken largest
\* position first.
RECURSIVE TotalAt(_, _, _)
TotalAt(list, positions, time) ==
    IF positions = {} THEN 0
    ELSE LET last == CHOOSE i \in positions : \A j \in positions : j <= i
         IN  DurationAt(list[last], time) + TotalAt(list, positions \ {last}, time)

Reversed(list) == [i \in DOMAIN list |-> list[Len(list) + 1 - i]]

\* C25 - sumDuration(sessions) is the sum over the sessions of (sessionEnd if
\* set, else the current time) minus sessionStart: 0 for the empty list, the
\* sum of the values of the two parts however the list is cut in two, the
\* same for the list in reverse order; an ongoing session counts with its
\* duration so far, so a later call on the same sessions yields no less.
C25_Sum ==
    Reviewed =>
        LET r == trail[1]
            list == r.shown.sessions
        IN /\ r.shown.total = TotalAt(list, DOMAIN list, r.time)
           /\ list = << >> => r.shown.total = 0
           /\ \A k \in 0..Len(list) :
                 sumDuration(SubSeq(list, 1, k), r.time)
                     + sumDuration(SubSeq(list, k + 1, Len(list)), r.time)
                     = r.shown.total
           /\ sumDuration(Reversed(list), r.time) = r.shown.total
           /\ \A later \in r.time..MaxTime : sumDuration(list, later) >= r.shown.total

C25_Step ==
    /\ Reviewed
    /\ Reviewed'
    /\ trail'[1].start = trail[1].start
    /\ trail'[1].end = trail[1].end
    /\ trail'[1].projectName = trail[1].projectName
    => trail'[1].shown.total >= trail[1].shown.total

C25_SumDuration == []C25_Sum /\ [][C25_Step]_vars

\* An ended session and the ongoing one, started at the first instant, were
\* summed at the last: the ongoing session counts with the time since.
C25_Witness ==
    /\ Reviewed
    /\ trail[1].time = MaxTime
    /\ now = MaxTime
    /\ Len(trail[1].shown.sessions) = 2
    /\ trail[1].shown.sessions[1].sessionEnd # Null
    /\ trail[1].shown.sessions[2].sessionEnd = Null
    /\ trail[1].shown.sessions[2].sessionStart = 0
    /\ trail[1].shown.total
           = MaxTime + trail[1].shown.sessions[1].sessionEnd
                 - trail[1].shown.sessions[1].sessionStart

\* ======================================================= claims: NotFound
\* The ids a review of the days start..end reads from the index buckets.
ReviewedIds(map, start, end) ==
    UNION {Range(GetOr(map, day)) : day \in start..end}

\* C29 - NotFound is surfaced: if an id taken from an index bucket of the
\* interval, or the ongoing pointer read for --current, has no record
\* document, the review ends with the error and shows nothing; a review that
\* shows data has hydrated every id of its buckets, none left out and none
\* replaced.
C29_NotFoundSurfaced ==
    pc = "idle" /\ trail # << >> =>
        LET r == trail[1]
            sessionIds == ReviewedIds(sessionIndex.byDate, r.start, r.end)
            createdIds == ReviewedIds(taskIndex.byCreationDate, r.start, r.end)
            completedIds == ReviewedIds(taskIndex.byCompletionDate, r.start, r.end)
            missing ==
                \/ ~(sessionIds \subseteq DOMAIN sessions)
                \/ ~(createdIds \cup completedIds \subseteq DOMAIN tasks)
                \/ /\ r.current
                   /\ store.ongoingSession # NoId
                   /\ store.ongoingSession \notin DOMAIN sessions
        IN /\ missing <=> "error" \in DOMAIN r
           /\ "error" \in DOMAIN r =>
                 /\ "data" \notin DOMAIN r
                 /\ "shown" \notin DOMAIN r
                 /\ console = "error: Uncaught NotFound"
           /\ "data" \in DOMAIN r =>
                 /\ GroupedRecords(r.data.sessions, "sessions")
                        = {sessions[id] : id \in sessionIds}
                 /\ GroupedRecords(r.data.createdTasks, "tasks")
                        = {tasks[id] : id \in createdIds}
                 /\ GroupedRecords(r.data.completedTasks, "tasks")
                        = {tasks[id] : id \in completedIds}

\* A review of both days failed: the first day's bucket lists task 2, whose
\* record is missing, next to task 1, whose record is there.
C29_Witness ==
    /\ pc = "idle"
    /\ trail # << >>
    /\ "error" \in DOMAIN trail[1]
    /\ ~trail[1].current
    /\ DOMAIN tasks = {1}
    /\ taskIndex.byCreationDate = (0 :> <<2, 1>>)
    /\ console = "error: Uncaught NotFound"

\* A review --current failed: the store names session 1 as ongoing and its
\* record is missing.
C29_WitnessPointer ==
    /\ pc = "idle"
    /\ trail # << >>
    /\ "error" \in DOMAIN trail[1]
    /\ trail[1].current
    /\ trail[1].start = 1
    /\ store.ongoingSession = 1
    /\ sessions = << >>
    /\ sessionIndex.byDate = (0 :> <<1>>)

\* ================================================ claims: store updates
\* C38 - Store updates of one command do not lose each other: once a
\* session-start that got its project (creating it when it was new, with
\* addProject started and not awaited) has registered its session and every
\* write it started has ended, the store document holds both the session's
\* project in projects and the session's id in ongoingSession.
C38_StoreUpdatesKept ==
    Idle /\ console = "Session Started! Get to work!" =>
        /\ cur.projectName \in store.projects
        /\ store.ongoingSession = cur.id

\* ==================================================== claims: day buckets
\* The days selectDay, selectWeek and selectMonth build their options from.
OfferedDays ==
    DOMAIN sessionIndex.byDate \cup DOMAIN taskIndex.byCreationDate
        \cup DOMAIN taskIndex.byCompletionDate

HasActivity(day) ==
    \/ \E id \in DOMAIN sessions : toDateString(sessions[id].sessionStart) = day
    \/ \E id \in DOMAIN tasks : toDateString(tasks[id].created) = day
    \/ \E id \in DOMAIN tasks :
          tasks[id].completed # Null /\ toDateString(tasks[id].completed) = day

\* C37 - No empty day buckets are offered: whenever no command is running
\* every key of byCreationDate, byCompletionDate and sessionIndex.byDate maps
\* to a non-empty list, and every day the review selection offers has a
\* session started, a task created or a task completed in it.
C37_NoEmptyDayBuckets ==
    Idle =>
        /\ \A day \in DOMAIN taskIndex.byCreationDate :
              taskIndex.byCreationDate[day] # << >>
        /\ \A day \in DOMAIN taskIndex.byCompletionDate :
              taskIndex.byCompletionDate[day] # << >>
        /\ \A day \in DOMAIN sessionIndex.byDate : sessionIndex.byDate[day] # << >>
        /\ \A day \in OfferedDays : HasActivity(day)

CompletedOn(day) ==
    {id \in DOMAIN tasks :
        tasks[id].isDone /\ tasks[id].completed # Null
                         /\ toDateString(tasks[id].completed) = day}

\* C37 (as the code has it) - whenever no command is running every key of
\* byCreationDate maps to a non-empty list, and a key of byCompletionDate maps
\* to exactly the tasks that are done and were completed on that day: the
\* list is empty when every task completed on that day has since been
\* reopened or completed again on another day, because deindexTask empties
\* lists and never removes a key.  A day the review selection offers has a
\* session started, a task created or a task completed in it, or is such an
\* emptied completion day.
C37_BucketsAsFiltered ==
    Idle =>
        /\ \A day \in DOMAIN taskIndex.byCreationDate :
              taskIndex.byCreationDate[day] # << >>
        /\ \A day \in DOMAIN taskIndex.byCompletionDate :
              /\ Range(taskIndex.byCompletionDate[day]) = CompletedOn(day)
              /\ \A id \in CompletedOn(day) :
                    Count(taskIndex.byCompletionDate[day], id) = 1
        /\ \A day \in OfferedDays :
              \/ HasActivity(day)
              \/ /\ day \in DOMAIN taskIndex.byCompletionDate
                 /\ taskIndex.byCompletionDate[day] = << >>

\* A day is offered in which no session started and no task was created or
\* is completed: its only completion was undone.
C37_Witness ==
    /\ Idle
    /\ \E day \in DOMAIN taskIndex.byCompletionDate :
          /\ taskIndex.byCompletionDate[day] = << >>
          /\ ~HasActivity(day)

\* ============================================ claims: toggleTasks returns
\* C33 - When toggleTasks returns to its caller the task index has been
\* saved with every toggled task re-indexed: once the loop over the tasks has
\* ended (the state in which toggleTasks returns, modifyTaskIndex only having
\* been started) the saved index files every rewritten record as the record
\* says.
C33_IndexSavedOnReturn ==
    pc = "toggle_index" =>
        \A i \in DOMAIN toggled : FiledAsRecorded(taskIndex, toggled[i])

\* ============================================== claims: toggle, the frame
\* The list with the toggled tasks taken out.
Untoggled(list) ==
    SelectSeq(list, LAMBDA id : \A i \in DOMAIN toggled : toggled[i].id # id)

\* The tasks of the presented list whose box differs from isDone.
Mismatched ==
    {id \in Range(opts.presented) : (id \in opts.checked) # tasks[id].isDone}

\* C31 - Batch toggle postcondition and frame: for the presented list L
\* (opts.presented) and the checked set C (opts.checked), a record is
\* rewritten only for a task of L whose box differs from isDone, with isDone
\* flipped, and no other record changes; when the loop has ended every task
\* of L has isDone = (id in C); and the index save that follows leaves the
\* tasks that were not rewritten in the same lists and buckets, in the same
\* relative order.
C31_Step ==
    opts.cmd = "complete" =>
        /\ pc = "toggle_write" =>
              \E id \in Mismatched :
                  /\ tasks'[id].isDone = ~tasks[id].isDone
                  /\ tasks'[id].isDone = (id \in opts.checked)
                  /\ \A other \in DOMAIN tasks \ {id} : tasks'[other] = tasks[other]
                  /\ DOMAIN tasks' = DOMAIN tasks
        /\ pc = "toggle_index" =>
              /\ Mismatched = {}
              /\ {toggled[i].id : i \in DOMAIN toggled} \subseteq Range(opts.presented)
              /\ tasks' = tasks
              /\ \A field \in ListFields :
                    Untoggled(taskIndex'[field]) = Untoggled(taskIndex[field])
              /\ \A field \in MapFields :
                    \A key \in DOMAIN taskIndex[field] \cup DOMAIN taskIndex'[field] :
                        Untoggled(GetOr(taskIndex'[field], key))
                            = Untoggled(GetOr(taskIndex[field], key))

C31_BatchToggleFrame == [][C31_Step]_vars

\* Of two presented tasks one was rewritten and the other, already matching
\* its box, was not; both are in the index lists.
C31_Witness ==
    /\ pc = "toggle_index"
    /\ Len(opts.presented) = 2
    /\ Len(toggled) = 1
    /\ \E id \in Range(opts.presented) :
          /\ id # toggled[1].id
          /\ tasks[id].isDone
          /\ id \in opts.checked
    /\ toggled[1].isDone

\* ==================================================== claims: listing scope
\* The tasks of a scope, by their records: "all", "inbox-list" for the tasks
\* with no project, or a project name.
InScope(scope, id) ==
    \/ scope = "all"
    \/ scope = "inbox-list" /\ tasks[id].projectName = Unset
    \/ scope \notin {"all", "inbox-list"} /\ tasks[id].projectName = scope

ScopeOf(scope, shouldIncludeDone) ==
    {id \in DOMAIN tasks :
        InScope(scope, id) /\ (shouldIncludeDone \/ ~tasks[id].isDone)}

\* The index list a listing of the scope reads.
ScopeList(scope, shouldIncludeDone) ==
    IF scope = "all"
    THEN (IF shouldIncludeDone THEN taskIndex.all ELSE taskIndex.incomplete)
    ELSE IF scope = "inbox-list" THEN taskIndex.inbox
    ELSE GetOr(taskIndex.byProject, scope)

Before(list, a, b) ==
    \E i, j \in DOMAIN list : i < j /\ list[i] = a /\ list[j] = b

\* The listing holds exactly the tasks of the scope, each once, two tasks
\* of one group in the order of the index list.
ListsScope(listed, scope, shouldIncludeDone) ==
    /\ Range(listed) = ScopeOf(scope, shouldIncludeDone)
    /\ \A id \in Range(listed) : Count(listed, id) = 1
    /\ \A a, b \in Range(listed) :
          groupKey(tasks[a]) = groupKey(tasks[b]) /\ Before(listed, a, b)
              => Before(ScopeList(scope, shouldIncludeDone), a, b)

\* C32 - Listing scope: whenever no command is running, getAllTasks,
\* getInboxTasks and getProjectTasks(P) return, with includeDone false,
\* exactly the tasks of their scope (all / no project / project P) whose
\* record has isDone = false, and with includeDone true exactly all tasks of
\* the scope, each once and in index order (getAllTasks: in index order
\* within each group); and the list a complete command presents is that
\* listing for its scope and --done flag.
C32_ListingScope ==
    /\ Idle =>
          \A scope \in {"all", "inbox-list"} \cup ProjectNames, done \in BOOLEAN :
              /\ CanHydrateTasks(presentedIds(scope, done))
              /\ LET listed == presentedTasks(scope, done) IN
                 ListsScope([i \in DOMAIN listed |-> listed[i].id], scope, done)
    /\ opts.cmd = "complete" /\ toggled = << >> /\ pc # "idle" =>
          ListsScope(opts.presented, opts.scope, opts.done)

\* A complete --all was presented the one open task; the other task, done
\* and of a project, is left out.
C32_Witness ==
    /\ opts.cmd = "complete"
    /\ toggled = << >>
    /\ opts.scope = "all"
    /\ ~opts.done
    /\ Len(opts.presented) = 1
    /\ Cardinality(DOMAIN tasks) = 2
    /\ \E id \in DOMAIN tasks : tasks[id].isDone /\ tasks[id].projectName # Unset

\* ================================================ claims: toggle and back
IdsOf(map, key) == Range(GetOr(map, key))

\* The two indexes hold the same ids in every list and bucket, an absent
\* bucket counting as an empty list.
SameIdSets(a, b) ==
    /\ \A field \in ListFields : Range(a[field]) = Range(b[field])
    /\ \A field \in MapFields :
          \A key \in DOMAIN a[field] \cup DOMAIN b[field] :
              IdsOf(a[field], key) = IdsOf(b[field], key)

\* C36 - Toggle reversibility: when the tasks that were not done are not
\* done again (toggled to done and back, any number of times) and the other
\* records are as they were, every record has its original isDone and
\* completed and every index list and bucket holds the same set of ids as
\* before the toggles, an absent bucket counting as an empty list; only
\* positions within the lists may differ.
C36_ToggleReversible ==
    /\ Idle
    /\ \A id \in DOMAIN tasks :
          IF trail[1].tasks[id].isDone
          THEN tasks[id] = trail[1].tasks[id]
          ELSE ~tasks[id].isDone
    => /\ tasks = trail[1].tasks
       /\ SameIdSets(taskIndex, trail[1].index)

\* Task 1 was toggled to done on the last day and back: it has moved to the
\* head of the lists and left an emptied completion bucket behind.
C36_Witness ==
    /\ Idle
    /\ tasks = trail[1].tasks
    /\ DOMAIN tasks = {1, 2}
    /\ ~tasks[1].isDone
    /\ trail[1].index.all = <<2, 1>>
    /\ taskIndex.all = <<1, 2>>
    /\ toDateString(MaxTime) \in DOMAIN taskIndex.byCompletionDate
    /\ toDateString(MaxTime) \notin DOMAIN trail[1].index.byCompletionDate

\* ================================================ claims: ongoing pointer
\* C34 - Ongoing-pointer integrity: in every state, also between the storage
\* writes of session-start and session-end, a set store.ongoingSession names
\* a session whose record document exists; and whenever no command is
\* running that record has sessionEnd unset.
C34_PointerIntegrity ==
    /\ store.ongoingSession # NoId => store.ongoingSession \in DOMAIN sessions
    /\ Idle /\ store.ongoingSession # NoId =>
          sessions[store.ongoingSession].sessionEnd = Null

\* Session-end has stamped the record of the second session and has yet to
\* clear the pointer, which still names it.
C34_Witness ==
    /\ pc = "end_setstore_save"
    /\ store.ongoingSession = 2
    /\ sessions[2].sessionEnd # Null
    /\ sessions[1].sessionEnd # Null

\* ======================================== claims: a stopped session-end
\* C35 - A session's sessionEnd, once written to its record, is never
\* overwritten by a later command, also when the session-end that wrote it
\* stopped after writing the record and before clearing the ongoing pointer:
\* no step changes a record whose sessionEnd is set.
C35_Step ==
    \A id \in DOMAIN sessions :
        sessions[id].sessionEnd # Null =>
            /\ id \in DOMAIN sessions'
            /\ sessions'[id] = sessions[id]

C35_EndNotOverwritten == [][C35_Step]_vars

\* =============================================== claims: a project "inbox"
\* The tasks of the records in the interval that are of the project named
\* "inbox" or of no project.
InboxKinds(stamp, start, end) ==
    {tasks[id] : id \in {i \in DOMAIN tasks :
                            /\ tasks[i].projectName \in {"inbox", Unset}
                            /\ InDays(tasks[i][stamp], start, end)}}

\* C40 - A project named "inbox" is not rejected: its tasks are indexed under
\* byProject["inbox"] and not in the inbox list, the tasks of no project in
\* the inbox list and not under byProject["inbox"]; yet groupTasks puts both
\* kinds in the one group "inbox", so the grouped listing of all tasks and a
\* review narrowed to "inbox" show the two kinds mixed.
C40_InboxMixed ==
    /\ \A id \in DOMAIN tasks :
          /\ tasks[id].projectName = "inbox" =>
                /\ inList(GetOr(taskIndex.byProject, "inbox"), id)
                /\ ~inList(taskIndex.inbox, id)
          /\ tasks[id].projectName = Unset =>
                /\ inList(taskIndex.inbox, id)
                /\ ~inList(GetOr(taskIndex.byProject, "inbox"), id)
    /\ CanHydrateTasks(taskIndex.all) =>
          Range(groupOf(groupTasks(hydrateTasks(taskIndex.all)), "tasks", "inbox"))
              = {tasks[id] : id \in {i \in DOMAIN tasks :
                                        tasks[i].projectName \in {"inbox", Unset}}}
    /\ Reviewed /\ trail[1].projectName = "inbox" =>
          /\ Range(trail[1].shown.createdTasks)
                = InboxKinds("created", trail[1].start, trail[1].end)
          /\ Range(trail[1].shown.completedTasks)
                = InboxKinds("completed", trail[1].start, trail[1].end)

\* A review narrowed to "inbox" showed a task of the project "inbox" and a
\* task of no project side by side.
C40_Witness ==
    /\ Reviewed
    /\ trail[1].projectName = "inbox"
    /\ \E i, j \in DOMAIN trail[1].shown.createdTasks :
          /\ trail[1].shown.createdTasks[i].projectName = "inbox"
          /\ trail[1].shown.createdTasks[j].projectName = Unset
          /\ inList(taskIndex.byProject["inbox"], trail[1].shown.createdTasks[i].id)
          /\ inList(taskIndex.inbox, trail[1].shown.createdTasks[j].id)

\* ====================================== claims: two session-starts at once
AllStartersDone ==
    /\ \A p \in Procs : HasCall(pending, p)
    /\ \A c \in pending : c.phase \in {"started", "rejected"}

Started == {c \in pending : c.phase = "started"}

\* The invocation evaluated its guard after another had registered its
\* session in the store.
GuardedAfterRegistration(p) ==
    \E i, j \in DOMAIN trail :
        /\ i < j
        /\ trail[i][1] = "registered"
        /\ trail[i][2] # p
        /\ trail[j] = <<"guard", p>>

====
